---- MODULE Spec2Model ----
(***************************************************************************)
(* Model of the bookmark reconciliation engine of src/src/App.tsx:         *)
(* mergeData, the sync cycles (syncWithServer, handleRefresh), the         *)
(* debounced save effect, and the remote document of src/src/api.ts.       *)
(*                                                                         *)
(* Conventions.  Timestamps (ISO strings in the source, compared through   *)
(* new Date(x).getTime()) are natural numbers; 0 stands for an absent or   *)
(* falsy optional timestamp (deletedAt undefined).  The optional flag      *)
(* `deleted` is a BOOLEAN, FALSE standing for both absent and false (the   *)
(* source only ever tests it for truthiness and only ever writes true).    *)
(***************************************************************************)
EXTENDS Integers, Sequences, FiniteSets, TLC

VARIABLES
    \* ---- a call of mergeData or cleanupOldTombstones on its own ----
    mLocal,             \* mergeData argument localData; the tree a sweep starts from
    mRemote,            \* mergeData argument serverDataObj
    mOut,               \* the call's result
    mPhase,             \* "in" before the call, "out" after it, "none" when unused
    mNow,               \* Date.now() as a sweep reads it
    item,               \* localStorage's item 'bookmarks-app-data' in a call of storage.load / save
    \* ---- per replica (one mounted App component each) ----
    data,               \* useState data: the in-memory tree
    stored,             \* localStorage under STORAGE_KEY: the replica store
    user,               \* a user is signed in
    isOnline,           \* useState isOnline
    hasFocus,           \* document.hasFocus()
    serverReachable,    \* useState serverReachable
    serverLastModified, \* useState serverLastModified: last known remote stamp
    isSyncingRef,       \* isSyncingRef.current: the sync guard
    syncInterval,       \* syncIntervalRef.current and the 60 s intervals that are set
    cycles,             \* invocations of syncWithServer / handleRefresh in flight
    timer,              \* the debounce timer of the save effect and the tree it closes over
    push,               \* a serverData.save call in flight and the tree it sends
    mounted,            \* the App component is rendered: no render and no effect of
                        \* it has thrown
    edited,             \* history: the replica has made an edit
    dropped,            \* history: a timer of the replica fired with the guard set (355)
    unpushed,           \* history: the latest edit of the replica was given no save
                        \* timer (344-352) or its timer found the guard set (355)
    skipped,            \* history: the guard turned away the last call of
                        \* syncWithServer / handleRefresh
    \* ---- the legacy backend (Express server with file storage) ----
    sessions,           \* Map sessionToken -> {username, expiresAt}
    userFile,           \* <username>_data.json: {data, lastModified}, or NoFile
    clock,              \* the server's new Date()
    nextToken,          \* the token generateToken gives out next
    response,           \* the response to the last request
    \* ---- a replica's start and sign-in (App.tsx 286-341) ----
    isLoaded,           \* useState isLoaded: the first auth callback has set the tree
    isAuthLoading,      \* useState isAuthLoading: no auth callback has run yet, the
                        \* loading screen is shown (1443-1452)
    auth,               \* the onAuthStateChanged callback: its position and the values
                        \* its closure holds
    \* ---- shared ----
    remote,             \* Firestore document users/{uid}/data/bookmarks: field data
    remoteVer,          \* number of writes of that document (its lastModified)
    now,                \* the wall clock
    nextId,             \* ids handed out by generateId so far
    eventsLeft          \* external events still allowed in this run

mvars == <<mLocal, mRemote, mOut, mPhase, mNow, item>>

bvars == <<sessions, userFile, clock, nextToken, response>>

avars == <<isLoaded, isAuthLoading, auth>>

rvars == <<data, stored, user, isOnline, hasFocus, serverReachable,
           serverLastModified, isSyncingRef, syncInterval, cycles, timer, push,
           skipped, unpushed, edited, dropped, mounted>>

svars == <<remote, remoteVer, now, nextId, eventsLeft>>

vars == <<mvars, bvars, avars, rvars, svars>>

(***************************************************************************)
(* Bounds                                                                  *)
(***************************************************************************)
MaxTime == 2            \* timestamps of mergeData's input trees range over 1..MaxTime
MaxEvents == 2          \* external events in a run of a replica: user edits, blur and
                        \* offline events, failing network calls, writes of the
                        \* remote document by other replicas
Retention == 2          \* the retention of a tombstone (30 days) in clock units

Times == 1..MaxTime
Titles == {"a", "b"}
Names == {"a", "b"}

(***************************************************************************)
(* Entity model (src/src/types.ts)                                         *)
(***************************************************************************)
Bookmark(i, t, u, d) ==
    [id |-> i, title |-> t, updatedAt |-> u, deleted |-> d # 0, deletedAt |-> d]

Category(i, n, bms, d) ==
    [id |-> i, name |-> n, bookmarks |-> bms, deleted |-> d # 0, deletedAt |-> d]

Bucket(i, n, cats, d, sh) ==
    [id |-> i, name |-> n, categories |-> cats, deleted |-> d # 0,
     deletedAt |-> d, isShared |-> sh]

AppData(bs) == [buckets |-> bs]

EmptyData == AppData(<<>>)

(***************************************************************************)
(* The replica store (src/src/storage.ts 3-25) over localStorage.  An item *)
(* is absent (getItem answers null), the empty string, a text JSON.parse   *)
(* rejects, or the text of a JSON value; localStorage may also refuse      *)
(* every access (getItem and setItem throw).  A JSON object is a function  *)
(* on the keys written.                                                    *)
(***************************************************************************)
NoItem == [kind |-> "none"]
EmptyText == [kind |-> "empty"]
BadText == [kind |-> "bad"]
Denied == [kind |-> "denied"]
JsonText(v) == [kind |-> "json", value |-> v]

\* JSON.stringify leaves out a property whose value is undefined: the optional
\* fields of types.ts when absent
IsWritten(k, v) ==
    CASE k = "deletedAt" -> v # 0
      [] k \in {"deleted", "isShared"} -> v = TRUE
      [] OTHER -> TRUE

WrittenKeys(e) == {k \in DOMAIN e : IsWritten(k, e[k])}

StringifyBookmark(bm) == [k \in WrittenKeys(bm) |-> bm[k]]

StringifyCategory(c) ==
    [k \in WrittenKeys(c) |->
        IF k = "bookmarks"
        THEN [i \in 1..Len(c.bookmarks) |-> StringifyBookmark(c.bookmarks[i])]
        ELSE c[k]]

StringifyBucket(b) ==
    [k \in WrittenKeys(b) |->
        IF k = "categories"
        THEN [i \in 1..Len(b.categories) |-> StringifyCategory(b.categories[i])]
        ELSE b[k]]

\* 19: JSON.stringify(data)
JSONstringify(tree) ==
    JsonText([buckets |-> [i \in 1..Len(tree.buckets) |-> StringifyBucket(tree.buckets[i])]])

\* a property JSON.parse did not find reads as undefined, which the entity
\* model writes 0 (deletedAt) or FALSE (deleted, isShared)
Prop(o, k, absent) == IF k \in DOMAIN o THEN o[k] ELSE absent

ReadBookmark(o) ==
    [id |-> o.id, title |-> o.title, updatedAt |-> o.updatedAt,
     deleted |-> Prop(o, "deleted", FALSE), deletedAt |-> Prop(o, "deletedAt", 0)]

ReadCategory(o) ==
    [id |-> o.id, name |-> o.name,
     bookmarks |-> [i \in 1..Len(o.bookmarks) |-> ReadBookmark(o.bookmarks[i])],
     deleted |-> Prop(o, "deleted", FALSE), deletedAt |-> Prop(o, "deletedAt", 0)]

ReadBucket(o) ==
    [id |-> o.id, name |-> o.name,
     categories |-> [i \in 1..Len(o.categories) |-> ReadCategory(o.categories[i])],
     deleted |-> Prop(o, "deleted", FALSE), deletedAt |-> Prop(o, "deletedAt", 0),
     isShared |-> Prop(o, "isShared", FALSE)]

\* 10: JSON.parse(data), which throws on a text that is not JSON
JSONparse(text) ==
    IF text.kind = "json"
    THEN [threw |-> FALSE,
          value |-> [buckets |-> [i \in 1..Len(text.value.buckets) |->
                                     ReadBucket(text.value.buckets[i])]]]
    ELSE [threw |-> TRUE, value |-> [buckets |-> <<>>]]

\* mutant: load without the try / catch of 7 and 12-14
load_NoCatch(it) ==
    IF it.kind \in {"denied", "bad"}
    THEN [threw |-> TRUE, value |-> [buckets |-> <<>>]]
    ELSE IF it.kind = "json" THEN JSONparse(it) ELSE [threw |-> FALSE, value |-> [buckets |-> <<>>]]

\* 6-16 storage.load
load(it) ==
    LET getItemThrew == it.kind = "denied"
        truthy == it.kind \in {"bad", "json"}                 \* 9: if (data)
        parsed == JSONparse(it)
    IN  IF ~getItemThrew /\ truthy /\ ~parsed.threw
        THEN [threw |-> FALSE, value |-> parsed.value]        \* 10
        ELSE [threw |-> FALSE, value |-> [buckets |-> <<>>]]  \* 12-15

\* 18-20 storage.save: the item after the call, and whether setItem threw
save(it, tree) ==
    IF it.kind = "denied"
    THEN [threw |-> TRUE, item |-> it]
    ELSE [threw |-> FALSE, item |-> JSONstringify(tree)]

(***************************************************************************)
(* Values of the legacy backend (src/unnamed/part_003)                     *)
(***************************************************************************)
NoFile == [data |-> "none", lastModified |-> 0]

NoResponse == [req |-> "none", token |-> 0, status |-> 0, data |-> "none", lastModified |-> 0]

(***************************************************************************)
(* JavaScript helpers                                                      *)
(***************************************************************************)
\* a || b on optional timestamps: a when truthy, otherwise b
OrElse(a, b) == IF a # 0 THEN a ELSE b

\* mutant: an array push instead of a keyed set
MapSet_AlwaysAppends(m, k, v) == Append(m, v)

\* mutant: set() on an existing key moves the entry to the end
MapSet_MovesToEnd(m, k, v) ==
    Append(SelectSeq(m, LAMBDA e : e.id # k), v)

\* Map<string, T> keeps insertion order; set() on an existing key replaces
\* the value in place, on a new key appends.
MapHas(m, k) == \E i \in 1..Len(m) : m[i].id = k

MapGet(m, k) == m[CHOOSE i \in 1..Len(m) : m[i].id = k]

MapSet(m, k, v) ==
    IF MapHas(m, k)
    THEN [i \in 1..Len(m) |-> IF m[i].id = k THEN v ELSE m[i]]
    ELSE Append(m, v)

\* list.forEach(x => map.set(x.id, {...x})) starting from map acc
RECURSIVE MapFromList(_, _)
MapFromList(list, acc) ==
    IF list = <<>> THEN acc
    ELSE MapFromList(Tail(list), MapSet(acc, Head(list).id, Head(list)))

(***************************************************************************)
(* mergeData (src/src/App.tsx 80-181)                                      *)
(***************************************************************************)
\* mutant: on equal updatedAt the server copy wins
MergeBookmark_TieServer(localBm, serverBm) ==
    IF localBm.deleted \/ serverBm.deleted
    THEN [serverBm EXCEPT !.deleted = TRUE,
                          !.deletedAt = OrElse(localBm.deletedAt, serverBm.deletedAt)]
    ELSE IF serverBm.updatedAt >= localBm.updatedAt
         THEN serverBm
         ELSE localBm

\* mutant: a tombstone is laid over the local copy, not the server copy
MergeBookmark_DeletedKeepsLocal(localBm, serverBm) ==
    IF localBm.deleted \/ serverBm.deleted
    THEN [localBm EXCEPT !.deleted = TRUE,
                         !.deletedAt = OrElse(localBm.deletedAt, serverBm.deletedAt)]
    ELSE IF serverBm.updatedAt > localBm.updatedAt
         THEN serverBm
         ELSE localBm

\* mutant: the newest copy wins even over a tombstone
MergeBookmark_NewestWins(localBm, serverBm) ==
    IF serverBm.updatedAt > localBm.updatedAt THEN serverBm ELSE localBm

\* 127-145: bookmark present on both sides
MergeBookmark(localBm, serverBm) ==
    IF localBm.deleted \/ serverBm.deleted
    THEN [serverBm EXCEPT !.deleted = TRUE,
                          !.deletedAt = OrElse(localBm.deletedAt, serverBm.deletedAt)]
    ELSE IF serverBm.updatedAt > localBm.updatedAt
         THEN serverBm
         ELSE localBm

\* mutant: the server's bookmark is pushed onto the list without a lookup
MergeBookmarkStep_PushesServer(mergedBookmarks, serverBm) ==
    Append(mergedBookmarks, serverBm)

\* 125-149: body of serverCat.bookmarks.forEach
MergeBookmarkStep(mergedBookmarks, serverBm) ==
    IF MapHas(mergedBookmarks, serverBm.id)
    THEN MapSet(mergedBookmarks, serverBm.id,
                MergeBookmark(MapGet(mergedBookmarks, serverBm.id), serverBm))
    ELSE MapSet(mergedBookmarks, serverBm.id, serverBm)

\* 124-150: serverCat.bookmarks.forEach over the map of local bookmarks
RECURSIVE MergeBookmarks(_, _)
MergeBookmarks(mergedBookmarks, serverBms) ==
    IF serverBms = <<>> THEN mergedBookmarks
    ELSE MergeBookmarks(MergeBookmarkStep(mergedBookmarks, Head(serverBms)),
                        Tail(serverBms))

\* mutant: only the local tombstone of a category counts
MergeCategory_LocalTomb(localCat, serverCat) ==
    [localCat EXCEPT
        !.name = serverCat.name,
        !.bookmarks = MergeBookmarks(MapFromList(localCat.bookmarks, <<>>),
                                     serverCat.bookmarks)]

\* 110-158: category present on both sides
MergeCategory(localCat, serverCat) ==
    [localCat EXCEPT
        !.name = serverCat.name,
        !.bookmarks = MergeBookmarks(MapFromList(localCat.bookmarks, <<>>),
                                     serverCat.bookmarks),
        !.deleted = localCat.deleted \/ serverCat.deleted,
        !.deletedAt = OrElse(localCat.deletedAt, serverCat.deletedAt)]

\* mutant: a category only the server has is dropped
MergeCategoryStep_DropsServerOnly(mergedCategories, serverCat) ==
    IF MapHas(mergedCategories, serverCat.id)
    THEN MapSet(mergedCategories, serverCat.id,
                MergeCategory(MapGet(mergedCategories, serverCat.id), serverCat))
    ELSE mergedCategories

\* 108-162: body of serverBucket.categories.forEach
MergeCategoryStep(mergedCategories, serverCat) ==
    IF MapHas(mergedCategories, serverCat.id)
    THEN MapSet(mergedCategories, serverCat.id,
                MergeCategory(MapGet(mergedCategories, serverCat.id), serverCat))
    ELSE MapSet(mergedCategories, serverCat.id, serverCat)

\* 107-163: serverBucket.categories.forEach over the map of local categories
RECURSIVE MergeCategories(_, _)
MergeCategories(mergedCategories, serverCats) ==
    IF serverCats = <<>> THEN mergedCategories
    ELSE MergeCategories(MergeCategoryStep(mergedCategories, Head(serverCats)),
                         Tail(serverCats))

\* mutant: the local name is kept
MergeBucket_LocalName(localBucket, serverBucket) ==
    [localBucket EXCEPT
        !.categories = MergeCategories(MapFromList(localBucket.categories, <<>>),
                                       serverBucket.categories),
        !.deleted = localBucket.deleted \/ serverBucket.deleted,
        !.deletedAt = OrElse(localBucket.deletedAt, serverBucket.deletedAt)]

\* 93-171: bucket present on both sides
MergeBucket(localBucket, serverBucket) ==
    [localBucket EXCEPT
        !.name = serverBucket.name,
        !.categories = MergeCategories(MapFromList(localBucket.categories, <<>>),
                                       serverBucket.categories),
        !.deleted = localBucket.deleted \/ serverBucket.deleted,
        !.deletedAt = OrElse(localBucket.deletedAt, serverBucket.deletedAt)]

\* mutant: a bucket only the server has arrives without its categories
MergeBucketStep_ServerOnlyEmpty(mergedBuckets, serverBucket) ==
    IF MapHas(mergedBuckets, serverBucket.id)
    THEN MapSet(mergedBuckets, serverBucket.id,
                MergeBucket(MapGet(mergedBuckets, serverBucket.id), serverBucket))
    ELSE MapSet(mergedBuckets, serverBucket.id, [serverBucket EXCEPT !.categories = <<>>])

\* 91-175: body of serverDataObj.buckets.forEach
MergeBucketStep(mergedBuckets, serverBucket) ==
    IF MapHas(mergedBuckets, serverBucket.id)
    THEN MapSet(mergedBuckets, serverBucket.id,
                MergeBucket(MapGet(mergedBuckets, serverBucket.id), serverBucket))
    ELSE MapSet(mergedBuckets, serverBucket.id, serverBucket)

\* 90-176: serverDataObj.buckets.forEach over the map of local buckets
RECURSIVE MergeBuckets(_, _)
MergeBuckets(mergedBuckets, serverBuckets) ==
    IF serverBuckets = <<>> THEN mergedBuckets
    ELSE MergeBuckets(MergeBucketStep(mergedBuckets, Head(serverBuckets)),
                      Tail(serverBuckets))

\* mutant: the local tree is kept, the server's is ignored
mergeData_LocalWins(localData, serverDataObj) == localData

\* mutant: the server's tree replaces the local one
mergeData_ServerWins(localData, serverDataObj) == serverDataObj

mergeData(localData, serverDataObj) ==
    [buckets |-> MergeBuckets(MapFromList(localData.buckets, <<>>),
                              serverDataObj.buckets)]

(***************************************************************************)
(* Input trees for the merge function.  Every child list holds at most two *)
(* children with distinct ids: child 1 ranges over all its field values,   *)
(* child 2 over a few, and they come in either order.  The three families  *)
(* vary the bookmark level, the category level and the bucket level.       *)
(***************************************************************************)
ChildIds == {1, 2}       \* ids of the children of one parent

Tombs == 0..MaxTime     \* 0: not deleted; d > 0: deleted with deletedAt = d

ListsOf(first, second) ==
    {<<>>} \cup {<<x>> : x \in first} \cup {<<y>> : y \in second}
           \cup {<<x, y>> : x \in first, y \in second}
           \cup {<<y, x>> : x \in first, y \in second}

BookmarkLists ==
    ListsOf({Bookmark(1, t, u, d) : t \in Titles, u \in Times, d \in Tombs},
            {Bookmark(2, "a", 1, d) : d \in {0, 1}})

PlainBookmarkLists == {<<>>, <<Bookmark(1, "a", 1, 0)>>}

CategoryLists ==
    ListsOf({Category(1, n, bms, d) : n \in Names, bms \in PlainBookmarkLists, d \in Tombs},
            {Category(2, "a", <<>>, d) : d \in {0, 1}})

PlainCategoryLists ==
    {<<>>, <<Category(1, "a", <<>>, 0)>>, <<Category(1, "a", <<Bookmark(1, "a", 1, 0)>>, 0)>>}

BucketLists ==
    ListsOf({Bucket(1, n, cats, d, sh) : n \in Names, cats \in PlainCategoryLists,
                                         d \in Tombs, sh \in BOOLEAN},
            {Bucket(2, "a", <<>>, d, FALSE) : d \in {0, 1}})

Trees ==
    {AppData(<<Bucket(1, "a", <<Category(1, "a", bms, 0)>>, 0, FALSE)>>) : bms \in BookmarkLists}
    \cup {AppData(<<Bucket(1, "a", cats, 0, FALSE)>>) : cats \in CategoryLists}
    \cup {AppData(bs) : bs \in BucketLists}

(***************************************************************************)
(* Local mutations (src/src/App.tsx 544-948) as functions on the tree      *)
(***************************************************************************)
\* list.map(e => e.id === k ? F(e) : e)
MapById(list, k, F(_)) ==
    [i \in 1..Len(list) |-> IF list[i].id = k THEN F(list[i]) ELSE list[i]]

InBucket(tree, bucketId, F(_)) ==
    [tree EXCEPT !.buckets = MapById(tree.buckets, bucketId, F)]

InCategory(tree, bucketId, categoryId, F(_)) ==
    InBucket(tree, bucketId,
             LAMBDA b : [b EXCEPT !.categories = MapById(b.categories, categoryId, F)])

\* storage.ts createBucket / createCategory / createBookmark: no tombstone fields
createBucket(id, name) == Bucket(id, name, <<>>, 0, FALSE)
createCategory(id, name) == Category(id, name, <<>>, 0)
createBookmark(id, title, t) == Bookmark(id, title, t, 0)

addBucket(tree, id, name) ==
    [tree EXCEPT !.buckets = Append(tree.buckets, createBucket(id, name))]

addCategory(tree, bucketId, id, name) ==
    InBucket(tree, bucketId,
             LAMBDA b : [b EXCEPT !.categories = Append(b.categories, createCategory(id, name))])

addBookmark(tree, bucketId, categoryId, id, title, t) ==
    InCategory(tree, bucketId, categoryId,
               LAMBDA c : [c EXCEPT !.bookmarks = Append(c.bookmarks, createBookmark(id, title, t))])

\* 588-592: the record is rebuilt from the form data, id kept, updatedAt = now
updateBookmark(tree, bucketId, categoryId, bookmarkId, title, t) ==
    InCategory(tree, bucketId, categoryId,
               LAMBDA c : [c EXCEPT !.bookmarks =
                   MapById(c.bookmarks, bookmarkId, LAMBDA b : Bookmark(b.id, title, t, 0))])

deleteBookmark(tree, bucketId, categoryId, bookmarkId, t) ==
    InCategory(tree, bucketId, categoryId,
               LAMBDA c : [c EXCEPT !.bookmarks =
                   MapById(c.bookmarks, bookmarkId,
                           LAMBDA b : [b EXCEPT !.deleted = TRUE, !.deletedAt = t,
                                                !.updatedAt = t])])

deleteCategory(tree, bucketId, categoryId, t) ==
    InCategory(tree, bucketId, categoryId,
               LAMBDA c : [c EXCEPT !.deleted = TRUE, !.deletedAt = t])

deleteBucket(tree, bucketId, t) ==
    InBucket(tree, bucketId, LAMBDA b : [b EXCEPT !.deleted = TRUE, !.deletedAt = t])

renameBucket(tree, bucketId, newName) ==
    InBucket(tree, bucketId, LAMBDA b : [b EXCEPT !.name = newName])

renameCategory(tree, bucketId, categoryId, newName) ==
    InCategory(tree, bucketId, categoryId, LAMBDA c : [c EXCEPT !.name = newName])

\* 2137-2185 BookmarkModal onSave, bookmark moved: it is filtered out of its
\* old category and appended to the target with its id kept, updatedAt = now
moveBookmark(tree, bucketId, categoryId, bookmarkId, targetBucketId, targetCategoryId, title, t) ==
    LET removed ==
            InCategory(tree, bucketId, categoryId,
                       LAMBDA c : [c EXCEPT !.bookmarks =
                                      SelectSeq(c.bookmarks, LAMBDA b : b.id # bookmarkId)])
    IN  InCategory(removed, targetBucketId, targetCategoryId,
                   LAMBDA c : [c EXCEPT !.bookmarks =
                                  Append(c.bookmarks, Bookmark(bookmarkId, title, t, 0))])

\* what the UI offers (1412-1436): live buckets, their live categories, their
\* live bookmarks
LiveBuckets(tree) == {i \in 1..Len(tree.buckets) : ~tree.buckets[i].deleted}

LiveCategories(b) == {j \in 1..Len(b.categories) : ~b.categories[j].deleted}

LiveBookmarks(c) == {k \in 1..Len(c.bookmarks) : ~c.bookmarks[k].deleted}

(***************************************************************************)
(* cleanupOldTombstones (src/src/App.tsx 951-986)                          *)
(***************************************************************************)
\* mutant: a tombstone exactly as old as the retention is kept
KeepEntity_KeepsAtRetention(e, t) ==
    IF e.deleted /\ e.deletedAt # 0 THEN e.deletedAt >= t - Retention ELSE TRUE

\* 959-962, 969-972, 978-981: the filter callbacks, thirtyDaysAgo = t - Retention
KeepEntity(e, t) ==
    IF e.deleted /\ e.deletedAt # 0 THEN e.deletedAt > t - Retention ELSE TRUE

\* 976-982
SweepBookmarks(bms, t) == SelectSeq(bms, LAMBDA bm : KeepEntity(bm, t))

\* 966-983
SweepCategories(cats, t) ==
    LET kept == SelectSeq(cats, LAMBDA c : KeepEntity(c, t))
    IN  [i \in 1..Len(kept) |->
            [kept[i] EXCEPT !.bookmarks = SweepBookmarks(kept[i].bookmarks, t)]]

\* mutant: the children of a bucket that is a tombstone are pruned with it
cleanupOldTombstones_PrunesUnderTombstone(tree, t) ==
    LET kept == SelectSeq(tree.buckets, LAMBDA b : KeepEntity(b, t))
    IN  [buckets |->
            [i \in 1..Len(kept) |->
                [kept[i] EXCEPT !.categories =
                    IF kept[i].deleted THEN <<>>
                    ELSE SweepCategories(kept[i].categories, t)]]]

\* 954-984: the updater given to setData, with Date.now() = t
cleanupOldTombstones(tree, t) ==
    LET kept == SelectSeq(tree.buckets, LAMBDA b : KeepEntity(b, t))
    IN  [buckets |->
            [i \in 1..Len(kept) |->
                [kept[i] EXCEPT !.categories = SweepCategories(kept[i].categories, t)]]]

(***************************************************************************)
(* The replicas and the remote document                                    *)
(***************************************************************************)
Replicas == {"A", "B"}

NewName == "n"          \* the name or title typed for a new entity

NoTree == EmptyData

Unarmed == [armed |-> FALSE, tree |-> NoTree]

NoPush == [active |-> FALSE, tree |-> NoTree]

\* Stamps.  check() and load() return the document's lastModified, written by
\* Firestore's serverTimestamp() (api.ts 105-107, 140, 158-160): stamp v > 0 for
\* the v-th write, 0 (null) for no document.  save() returns the client's own
\* clock reading taken before the write (api.ts 133, 144-147), a value of
\* another clock: -v for the save that made write v.
ServerStamp(v) == v

ClientStamp(v) == 0 - v

\* The 60 s interval (441-482).  syncInterval holds syncIntervalRef.current
\* (0 for null) and the ids of the intervals that are set and not cleared.
\* setInterval gives an id no live interval has; which one is immaterial, the
\* id is only handed back to clearInterval.
NoInterval == [ref |-> 0, live |-> {}]

FreshInterval(si) ==
    CHOOSE n \in 1..(Cardinality(si.live) + 1) :
        n \notin si.live /\ \A m \in 1..(n - 1) : m \in si.live

\* 449-454 of handleFocus: the interval of the ref is cleared, a new one set
handleFocus(si) ==
    LET cleared == [si EXCEPT !.live = @ \ {si.ref}]
        id == FreshInterval(cleared)
    IN  [ref |-> id, live |-> cleared.live \cup {id}]

\* mutant: the interval stays set when the window loses the focus
handleBlur_KeepsInterval(si) == si

\* 457-463 handleBlur
handleBlur(si) == [ref |-> 0, live |-> si.live \ {si.ref}]

\* 474-480: the cleanup of the focus effect clears the interval of the ref
\* and leaves the ref as it is
FocusCleanup(si) == [si EXCEPT !.live = @ \ {si.ref}]

\* the focus effect runs again, one of its dependencies (user, syncWithServer)
\* having changed: cleanup, then 442 and 469-472 with the new user
FocusEffect(si, signedIn, focused) ==
    IF signedIn /\ focused THEN handleFocus(FocusCleanup(si)) ELSE FocusCleanup(si)

\* the tree both replicas and the remote start from
SeedTree ==
    AppData(<<Bucket(1, "a", <<Category(1, "a", <<Bookmark(1, "a", 1, 0)>>, 0)>>, 0, FALSE)>>)

\* a syncWithServer() without the test of isSyncingRef
SyncCall_NoGuard(r, lm) ==
    IF user[r]
    THEN /\ isSyncingRef' = [isSyncingRef EXCEPT ![r] = TRUE]
         /\ cycles' = [cycles EXCEPT ![r] = @ \cup {[kind |-> "sync", pc |-> "check", lm |-> lm]}]
         /\ skipped' = [skipped EXCEPT ![r] = FALSE]
    ELSE /\ skipped' = [skipped EXCEPT ![r] = TRUE]
         /\ UNCHANGED <<isSyncingRef, cycles>>

\* 184-189: a call of syncWithServer() whose closure holds serverLastModified = lm
SyncCall(r, lm) ==
    IF user[r] /\ ~isSyncingRef[r]
    THEN /\ isSyncingRef' = [isSyncingRef EXCEPT ![r] = TRUE]
         /\ cycles' = [cycles EXCEPT ![r] = @ \cup {[kind |-> "sync", pc |-> "check", lm |-> lm]}]
         /\ skipped' = [skipped EXCEPT ![r] = FALSE]
    ELSE /\ skipped' = [skipped EXCEPT ![r] = TRUE]
         /\ UNCHANGED <<isSyncingRef, cycles>>

\* 344-374 with the values the effect's run reads: nothing is done before the
\* tree is loaded (345); else the store is written (348) and a timer is set
\* for tree d unless signed out, syncing or offline (351-354).  The cleanup of
\* the run before has cleared the pending timer (373).
RunSaveEffect(r, d, online, syncing, signedIn, loaded) ==
    /\ stored' = [stored EXCEPT ![r] = IF loaded THEN d ELSE @]
    /\ timer' = [timer EXCEPT ![r] =
                    IF loaded /\ signedIn /\ ~syncing /\ online
                    THEN [armed |-> TRUE, tree |-> d]
                    ELSE Unarmed]

\* 344-374: the save effect, run after a render that changed data or isOnline,
\* with the guard value it then reads: the store is written, the pending timer
\* is cleared by the effect's cleanup, and a new one is set for tree d unless
\* signed out, syncing or offline
\* mutant: a pending timer is left as it is, no new one is set
SaveEffect_KeepsPending(r, d, online, syncing) ==
    /\ stored' = [stored EXCEPT ![r] = d]
    /\ timer' = [timer EXCEPT ![r] =
                    IF user[r] /\ ~syncing /\ online
                    THEN (IF @.armed THEN @ ELSE [armed |-> TRUE, tree |-> d])
                    ELSE Unarmed]

\* mutant: the effect without storage.save (348)
SaveEffect_NoPersist(r, d, online, syncing) ==
    /\ UNCHANGED stored
    /\ timer' = [timer EXCEPT ![r] =
                    IF user[r] /\ ~syncing /\ online
                    THEN [armed |-> TRUE, tree |-> d]
                    ELSE Unarmed]

SaveEffect(r, d, online, syncing) == RunSaveEffect(r, d, online, syncing, user[r], isLoaded[r])

\* a user edit at time now + 1: setData, then the save effect
Commit(r, tree) ==
    /\ mounted[r]
    /\ ~isAuthLoading[r]
    /\ eventsLeft > 0
    /\ eventsLeft' = eventsLeft - 1
    /\ now' = now + 1
    /\ data' = [data EXCEPT ![r] = tree]
    /\ SaveEffect(r, tree, isOnline[r], isSyncingRef[r])
    /\ unpushed' = [unpushed EXCEPT ![r] = ~timer'[r].armed]
    /\ edited' = [edited EXCEPT ![r] = TRUE]
    /\ UNCHANGED <<mvars, bvars, avars, dropped, mounted, skipped, user, isOnline, hasFocus, serverReachable, serverLastModified,
                   isSyncingRef, syncInterval, cycles, push,
                   remote, remoteVer>>

AddBucket(r) ==
    /\ Commit(r, addBucket(data[r], nextId, NewName))
    /\ nextId' = nextId + 1

AddCategory(r) ==
    \E i \in LiveBuckets(data[r]) :
        /\ Commit(r, addCategory(data[r], data[r].buckets[i].id, nextId, NewName))
        /\ nextId' = nextId + 1

\* 574-627 addOrUpdateBookmark, the branch without editingBookmark
AddBookmark(r) ==
    \E i \in LiveBuckets(data[r]) :
        \E j \in LiveCategories(data[r].buckets[i]) :
            LET b == data[r].buckets[i]
            IN  /\ Commit(r, addBookmark(data[r], b.id, b.categories[j].id, nextId,
                                         NewName, now + 1))
                /\ nextId' = nextId + 1

\* 574-627 addOrUpdateBookmark, the branch with editingBookmark
UpdateBookmark(r) ==
    \E i \in LiveBuckets(data[r]) :
        \E j \in LiveCategories(data[r].buckets[i]) :
            \E k \in LiveBookmarks(data[r].buckets[i].categories[j]) :
              \E title \in Titles \ {data[r].buckets[i].categories[j].bookmarks[k].title} :
                LET b == data[r].buckets[i]
                    c == b.categories[j]
                IN  /\ Commit(r, updateBookmark(data[r], b.id, c.id, c.bookmarks[k].id,
                                                title, now + 1))
                    /\ UNCHANGED nextId

DeleteBookmark(r) ==
    \E i \in LiveBuckets(data[r]) :
        \E j \in LiveCategories(data[r].buckets[i]) :
            \E k \in LiveBookmarks(data[r].buckets[i].categories[j]) :
                LET b == data[r].buckets[i]
                    c == b.categories[j]
                IN  /\ Commit(r, deleteBookmark(data[r], b.id, c.id, c.bookmarks[k].id,
                                                now + 1))
                    /\ UNCHANGED nextId

DeleteCategory(r) ==
    \E i \in LiveBuckets(data[r]) :
        \E j \in LiveCategories(data[r].buckets[i]) :
            LET b == data[r].buckets[i]
            IN  /\ Commit(r, deleteCategory(data[r], b.id, b.categories[j].id, now + 1))
                /\ UNCHANGED nextId

DeleteBucket(r) ==
    \E i \in LiveBuckets(data[r]) :
        /\ Commit(r, deleteBucket(data[r], data[r].buckets[i].id, now + 1))
        /\ UNCHANGED nextId

RenameBucket(r) ==
    \E i \in LiveBuckets(data[r]) :
        \E name \in Names \ {data[r].buckets[i].name} :
            /\ Commit(r, renameBucket(data[r], data[r].buckets[i].id, name))
            /\ UNCHANGED nextId

RenameCategory(r) ==
    \E i \in LiveBuckets(data[r]) :
        \E j \in LiveCategories(data[r].buckets[i]) :
            \E name \in Names \ {data[r].buckets[i].categories[j].name} :
                LET b == data[r].buckets[i]
                IN  /\ Commit(r, renameCategory(data[r], b.id, b.categories[j].id, name))
                    /\ UNCHANGED nextId

Mutation(r) ==
    \/ AddBucket(r) \/ AddCategory(r) \/ AddBookmark(r) \/ UpdateBookmark(r)
    \/ DeleteBookmark(r) \/ DeleteCategory(r) \/ DeleteBucket(r)
    \/ RenameBucket(r) \/ RenameCategory(r)

(***************************************************************************)
(* Triggers of a sync cycle                                                *)
(***************************************************************************)
\* the window gains the focus; 444-455 handleFocus is registered while a user
\* is signed in (442)
Focus(r) ==
    /\ mounted[r]
    /\ ~hasFocus[r]
    /\ hasFocus' = [hasFocus EXCEPT ![r] = TRUE]
    /\ IF user[r]
       THEN /\ SyncCall(r, serverLastModified[r])
            /\ syncInterval' = [syncInterval EXCEPT ![r] = handleFocus(@)]
       ELSE UNCHANGED <<isSyncingRef, cycles, skipped, syncInterval>>
    /\ UNCHANGED <<mvars, bvars, avars, dropped, mounted, edited, unpushed, data, stored, user, isOnline, serverReachable,
                   serverLastModified, timer, push, svars>>

\* the window loses the focus; 457-463 handleBlur is registered while a user
\* is signed in
Blur(r) ==
    /\ mounted[r]
    /\ hasFocus[r]
    /\ eventsLeft > 0
    /\ eventsLeft' = eventsLeft - 1
    /\ hasFocus' = [hasFocus EXCEPT ![r] = FALSE]
    /\ syncInterval' = [syncInterval EXCEPT ![r] = IF user[r] THEN handleBlur(@) ELSE @]
    /\ UNCHANGED <<mvars, bvars, avars, dropped, mounted, edited, skipped, unpushed, data, stored, user, isOnline, serverReachable,
                   serverLastModified, isSyncingRef, cycles, timer, push,
                   remote, remoteVer, now, nextId>>

\* 452-454: the 60 s interval fires
IntervalTick(r) ==
    /\ mounted[r]
    /\ syncInterval[r].live # {}
    /\ SyncCall(r, serverLastModified[r])
    /\ UNCHANGED <<mvars, bvars, avars, dropped, mounted, edited, unpushed, data, stored, user, isOnline, hasFocus, serverReachable,
                   serverLastModified, syncInterval, timer, push, svars>>

Online_NoSync(r) ==
    /\ mounted[r]
    /\ ~isOnline[r]
    /\ isOnline' = [isOnline EXCEPT ![r] = TRUE]
    /\ serverReachable' = [serverReachable EXCEPT ![r] = TRUE]
    /\ SaveEffect(r, data[r], TRUE, isSyncingRef[r])
    /\ unpushed' = [unpushed EXCEPT ![r] = @ /\ ~timer'[r].armed]
    /\ UNCHANGED <<mvars, bvars, avars, dropped, mounted, edited, skipped, data, user, hasFocus, serverLastModified, syncInterval,
                   isSyncingRef, cycles, push, svars>>

\* 1003-1010 handleOnline, then the save effect (isOnline is one of its
\* dependencies), which reads the guard the sync call has just set
Online(r) ==
    /\ mounted[r]
    /\ ~isOnline[r]
    /\ isOnline' = [isOnline EXCEPT ![r] = TRUE]
    /\ serverReachable' = [serverReachable EXCEPT ![r] = TRUE]
    /\ SyncCall(r, serverLastModified[r])
    /\ SaveEffect(r, data[r], TRUE, isSyncingRef'[r])
    /\ unpushed' = [unpushed EXCEPT ![r] = @ /\ ~timer'[r].armed]
    /\ UNCHANGED <<mvars, bvars, avars, dropped, mounted, edited, data, user, hasFocus, serverLastModified, syncInterval,
                   push, svars>>

\* 1012-1015 handleOffline, then the save effect
Offline(r) ==
    /\ mounted[r]
    /\ isOnline[r]
    /\ eventsLeft > 0
    /\ eventsLeft' = eventsLeft - 1
    /\ isOnline' = [isOnline EXCEPT ![r] = FALSE]
    /\ serverReachable' = [serverReachable EXCEPT ![r] = FALSE]
    /\ SaveEffect(r, data[r], FALSE, isSyncingRef[r])
    /\ unpushed' = [unpushed EXCEPT ![r] = @ /\ ~timer'[r].armed]
    /\ UNCHANGED <<mvars, bvars, avars, dropped, mounted, edited, skipped, data, user, hasFocus, serverLastModified, isSyncingRef,
                   syncInterval, cycles, push,
                   remote, remoteVer, now, nextId>>

\* 224-237 handleRefresh up to its first await, on a click of the refresh
\* button.  The button is disabled (1513) while offline, while the server is
\* marked unreachable and while syncStatus is 'syncing', which it is from
\* 232 to 279 of a handleRefresh cycle.
Refresh(r) ==
    /\ mounted[r]
    /\ isOnline[r]
    /\ serverReachable[r]
    /\ \A c \in cycles[r] : c.kind # "refresh"
    /\ IF user[r] /\ ~isSyncingRef[r]
       THEN /\ isSyncingRef' = [isSyncingRef EXCEPT ![r] = TRUE]
            /\ cycles' = [cycles EXCEPT ![r] =
                             @ \cup {[kind |-> "refresh", pc |-> "check",
                                      lm |-> serverLastModified[r]]}]
            /\ skipped' = [skipped EXCEPT ![r] = FALSE]
       ELSE /\ skipped' = [skipped EXCEPT ![r] = TRUE]
            /\ UNCHANGED <<isSyncingRef, cycles>>
    /\ UNCHANGED <<mvars, bvars, avars, dropped, mounted, edited, unpushed, data, stored, user, isOnline, hasFocus, serverReachable,
                   serverLastModified, syncInterval, timer, push, svars>>

(***************************************************************************)
(* The steps of a sync cycle (184-221 syncWithServer, 224-283              *)
(* handleRefresh), one per await                                           *)
(***************************************************************************)
Step(r, c, pc) == [cycles EXCEPT ![r] = (@ \ {c}) \cup {[c EXCEPT !.pc = pc]}]

\* the current stamp of the remote document (api.ts 154-166)
RemoteStamp == ServerStamp(remoteVer)

\* a syncWithServer() that ends without resetting isSyncingRef
EndOfTry_NoFinally(r, c) ==
    IF c.kind = "sync"
    THEN /\ cycles' = [cycles EXCEPT ![r] = @ \ {c}]
         /\ UNCHANGED isSyncingRef
    ELSE /\ cycles' = Step(r, c, "hold")
         /\ UNCHANGED isSyncingRef

\* 218-220 finally of syncWithServer; handleRefresh instead sets the timer of
\* 277-282 and holds the guard until it fires
EndOfTry(r, c) ==
    IF c.kind = "sync"
    THEN /\ isSyncingRef' = [isSyncingRef EXCEPT ![r] = FALSE]
         /\ cycles' = [cycles EXCEPT ![r] = @ \ {c}]
    ELSE /\ cycles' = Step(r, c, "hold")
         /\ UNCHANGED isSyncingRef

\* mutant: a check whose answer is not compared, load() is called
CheckSame_Loads(r) ==
    \E c \in cycles[r] :
        /\ mounted[r]
        /\ c.pc = "check"
        /\ RemoteStamp = c.lm
        /\ cycles' = Step(r, c, "load")
        /\ UNCHANGED <<mvars, bvars, avars, dropped, mounted, edited, skipped, unpushed, data, stored, user, isOnline, hasFocus, serverReachable,
                       serverLastModified, isSyncingRef, syncInterval, timer, push, svars>>

\* check() answers with the stamp the closure already holds: 206-207
CheckSame(r) ==
    \E c \in cycles[r] :
        /\ mounted[r]
        /\ c.pc = "check"
        /\ RemoteStamp = c.lm
        /\ serverReachable' = [serverReachable EXCEPT ![r] = TRUE]
        /\ cycles' = Step(r, c, "shared")
        /\ UNCHANGED <<mvars, bvars, avars, dropped, mounted, edited, skipped, unpushed, data, stored, user, isOnline, hasFocus, serverLastModified,
                       isSyncingRef, syncInterval, timer, push, svars>>

\* check() answers with another stamp: 191-193, load() is called
CheckChanged(r) ==
    \E c \in cycles[r] :
        /\ mounted[r]
        /\ c.pc = "check"
        /\ RemoteStamp # c.lm
        /\ cycles' = Step(r, c, "load")
        /\ UNCHANGED <<mvars, bvars, avars, dropped, mounted, edited, skipped, unpushed, data, stored, user, isOnline, hasFocus, serverReachable,
                       serverLastModified, isSyncingRef, syncInterval, timer, push, svars>>

\* check() answers {error}: 204-205
CheckError(r) ==
    \E c \in cycles[r] :
        /\ mounted[r]
        /\ c.pc = "check"
        /\ eventsLeft > 0
        /\ eventsLeft' = eventsLeft - 1
        /\ serverReachable' = [serverReachable EXCEPT ![r] = FALSE]
        /\ cycles' = Step(r, c, "shared")
        /\ UNCHANGED <<mvars, bvars, avars, dropped, mounted, edited, skipped, unpushed, data, stored, user, isOnline, hasFocus, serverLastModified,
                       isSyncingRef, syncInterval, timer, push,
                       remote, remoteVer, now, nextId>>

\* mutant: the merge without setServerLastModified (201)
LoadOk_KeepsStamp(r) ==
    \E c \in cycles[r] :
        /\ mounted[r]
        /\ c.pc = "load"
        /\ LET merged == mergeData(data[r], remote)
           IN  /\ data' = [data EXCEPT ![r] = merged]
               /\ SaveEffect(r, merged, isOnline[r], isSyncingRef[r])
        /\ unpushed' = [unpushed EXCEPT ![r] = @ /\ ~timer'[r].armed]
        /\ UNCHANGED serverLastModified
        /\ serverReachable' = [serverReachable EXCEPT ![r] = TRUE]
        /\ cycles' = Step(r, c, "shared")
        /\ skipped' = [skipped EXCEPT ![r] = IF hasFocus[r] THEN TRUE ELSE @]
        /\ syncInterval' = [syncInterval EXCEPT ![r] = FocusEffect(@, user[r], hasFocus[r])]
        /\ UNCHANGED <<mvars, bvars, avars, dropped, mounted, edited, user, isOnline, hasFocus, isSyncingRef,
                       push, svars>>

\* load() answers with the document: 195-203.  The render that follows runs
\* while the cycle awaits loadAll, the guard still set: the save effect writes
\* the store and leaves no timer; the focus effect, re-run for the new
\* serverLastModified, calls syncWithServer, which the guard turns away.
LoadOk(r) ==
    \E c \in cycles[r] :
        /\ mounted[r]
        /\ c.pc = "load"
        /\ LET merged == mergeData(data[r], remote)
           IN  /\ data' = [data EXCEPT ![r] = merged]
               /\ SaveEffect(r, merged, isOnline[r], isSyncingRef[r])
        /\ unpushed' = [unpushed EXCEPT ![r] = @ /\ ~timer'[r].armed]
        /\ serverLastModified' = [serverLastModified EXCEPT ![r] = RemoteStamp]
        /\ serverReachable' = [serverReachable EXCEPT ![r] = TRUE]
        /\ cycles' = Step(r, c, "shared")
        /\ skipped' = [skipped EXCEPT ![r] = IF hasFocus[r] THEN TRUE ELSE @]
        /\ syncInterval' = [syncInterval EXCEPT ![r] = FocusEffect(@, user[r], hasFocus[r])]
        /\ UNCHANGED <<mvars, bvars, avars, dropped, mounted, edited, user, isOnline, hasFocus, isSyncingRef,
                       push, svars>>

\* load() answers {error}: the if of 195 has no else
LoadError(r) ==
    \E c \in cycles[r] :
        /\ mounted[r]
        /\ c.pc = "load"
        /\ eventsLeft > 0
        /\ eventsLeft' = eventsLeft - 1
        /\ cycles' = Step(r, c, "shared")
        /\ UNCHANGED <<mvars, bvars, avars, dropped, mounted, edited, skipped, unpushed, data, stored, user, isOnline, hasFocus, serverReachable,
                       serverLastModified, isSyncingRef, syncInterval, timer, push,
                       remote, remoteVer, now, nextId>>

\* sharedBuckets.loadAll() answers: 211-214, the try block ends
SharedDone(r) ==
    \E c \in cycles[r] :
        /\ mounted[r]
        /\ c.pc = "shared"
        /\ EndOfTry(r, c)
        /\ UNCHANGED <<mvars, bvars, avars, dropped, mounted, edited, skipped, unpushed, data, stored, user, isOnline, hasFocus, serverReachable,
                       serverLastModified, syncInterval, timer, push, svars>>

\* an awaited call throws: catch of 215-217 / 267-271.  serverData.check and
\* serverData.load catch their own errors and answer {error} (api.ts 120-123,
\* 167-170), so the call that can throw is sharedBuckets.loadAll.
Throws(r) ==
    \E c \in cycles[r] :
        /\ mounted[r]
        /\ c.pc = "shared"
        /\ eventsLeft > 0
        /\ eventsLeft' = eventsLeft - 1
        /\ serverReachable' = [serverReachable EXCEPT ![r] = FALSE]
        /\ EndOfTry(r, c)
        /\ UNCHANGED <<mvars, bvars, avars, dropped, mounted, edited, skipped, unpushed, data, stored, user, isOnline, hasFocus, serverLastModified,
                       syncInterval, timer, push,
                       remote, remoteVer, now, nextId>>

\* 277-282: the timer handleRefresh set releases the guard
RefreshRelease(r) ==
    \E c \in cycles[r] :
        /\ mounted[r]
        /\ c.pc = "hold"
        /\ isSyncingRef' = [isSyncingRef EXCEPT ![r] = FALSE]
        /\ cycles' = [cycles EXCEPT ![r] = @ \ {c}]
        /\ UNCHANGED <<mvars, bvars, avars, dropped, mounted, edited, skipped, unpushed, data, stored, user, isOnline, hasFocus, serverReachable,
                       serverLastModified, syncInterval, timer, push, svars>>

CycleStep(r) ==
    \/ CheckSame(r) \/ CheckChanged(r) \/ CheckError(r)
    \/ LoadOk(r) \/ LoadError(r)
    \/ SharedDone(r) \/ Throws(r) \/ RefreshRelease(r)

(***************************************************************************)
(* The debounced push (344-374)                                            *)
(***************************************************************************)
\* mutant: the timer callback without the test of 355
TimerFires_NoSecondCheck(r) ==
    /\ mounted[r]
    /\ timer[r].armed
    /\ ~push[r].active
    /\ timer' = [timer EXCEPT ![r] = Unarmed]
    /\ push' = [push EXCEPT ![r] =
                   [active |-> TRUE, tree |-> timer[r].tree]]
    /\ unpushed' = [unpushed EXCEPT ![r] = IF isSyncingRef[r] THEN TRUE ELSE @]
    /\ dropped' = [dropped EXCEPT ![r] = IF isSyncingRef[r] THEN TRUE ELSE @]
    /\ UNCHANGED <<mvars, bvars, avars, mounted, edited, skipped, data, stored, user, isOnline, hasFocus, serverReachable,
                   serverLastModified, isSyncingRef, syncInterval, cycles, svars>>

\* 354-358: the timer fires; a replica has one save in flight at a time
TimerFires(r) ==
    /\ mounted[r]
    /\ timer[r].armed
    /\ ~push[r].active
    /\ timer' = [timer EXCEPT ![r] = Unarmed]
    /\ push' = [push EXCEPT ![r] =
                   IF isSyncingRef[r] THEN NoPush
                   ELSE [active |-> TRUE, tree |-> timer[r].tree]]
    /\ unpushed' = [unpushed EXCEPT ![r] = IF isSyncingRef[r] THEN TRUE ELSE @]
    /\ dropped' = [dropped EXCEPT ![r] = IF isSyncingRef[r] THEN TRUE ELSE @]
    /\ UNCHANGED <<mvars, bvars, avars, mounted, edited, skipped, data, stored, user, isOnline, hasFocus, serverReachable,
                   serverLastModified, isSyncingRef, syncInterval, cycles, svars>>

\* api.ts 128-148 save(): setDoc replaces the document; 359-361 take the stamp
\* it returns.  The focus effect, re-run for the new serverLastModified, calls
\* handleFocus when the window has the focus (469-472).
SaveOk(r) ==
    /\ mounted[r]
    /\ push[r].active
    /\ remote' = push[r].tree
    /\ remoteVer' = remoteVer + 1
    /\ push' = [push EXCEPT ![r] = NoPush]
    /\ serverLastModified' = [serverLastModified EXCEPT ![r] = ClientStamp(remoteVer + 1)]
    /\ serverReachable' = [serverReachable EXCEPT ![r] = TRUE]
    /\ syncInterval' = [syncInterval EXCEPT ![r] = FocusEffect(@, user[r], hasFocus[r])]
    /\ IF hasFocus[r]
       THEN SyncCall(r, ClientStamp(remoteVer + 1))
       ELSE UNCHANGED <<isSyncingRef, cycles, skipped>>
    /\ UNCHANGED <<mvars, bvars, avars, dropped, mounted, edited, unpushed, data, stored, user, isOnline, hasFocus, timer,
                   now, nextId, eventsLeft>>

\* mutant: the stamp is taken from a save that failed
SaveFails_TakesStamp(r) ==
    /\ mounted[r]
    /\ push[r].active
    /\ eventsLeft > 0
    /\ eventsLeft' = eventsLeft - 1
    /\ push' = [push EXCEPT ![r] = NoPush]
    /\ serverReachable' = [serverReachable EXCEPT ![r] = FALSE]
    /\ serverLastModified' = [serverLastModified EXCEPT ![r] = ClientStamp(remoteVer + 1)]
    /\ UNCHANGED <<mvars, bvars, avars, dropped, mounted, edited, skipped, unpushed, data, stored, user, isOnline, hasFocus,
                   isSyncingRef, syncInterval, cycles, timer,
                   remote, remoteVer, now, nextId>>

\* save() answers {error} (362-364) or throws (366-368)
SaveFails(r) ==
    /\ mounted[r]
    /\ push[r].active
    /\ eventsLeft > 0
    /\ eventsLeft' = eventsLeft - 1
    /\ push' = [push EXCEPT ![r] = NoPush]
    /\ serverReachable' = [serverReachable EXCEPT ![r] = FALSE]
    /\ UNCHANGED <<mvars, bvars, avars, dropped, mounted, edited, skipped, unpushed, data, stored, user, isOnline, hasFocus, serverLastModified,
                   isSyncingRef, syncInterval, cycles, timer,
                   remote, remoteVer, now, nextId>>

(***************************************************************************)
(* Other replicas of the same user, seen from the remote document: each of *)
(* their pushes replaces the document (api.ts 128-148) by the seed tree    *)
(* with one edit of theirs, made at the latest time a local edit can have. *)
(***************************************************************************)
OtherTime == 1 + MaxEvents

OtherId == 9            \* an id generateId gave out on another replica

OtherTrees ==
    { deleteBookmark(SeedTree, 1, 1, 1, OtherTime),
      updateBookmark(SeedTree, 1, 1, 1, "b", OtherTime),
      addBookmark(SeedTree, 1, 1, OtherId, NewName, OtherTime),
      deleteCategory(SeedTree, 1, 1, OtherTime),
      deleteBucket(SeedTree, 1, OtherTime),
      renameBucket(SeedTree, 1, "b"),
      renameCategory(SeedTree, 1, 1, "b") }

OtherWrites ==
    /\ eventsLeft > 0
    /\ eventsLeft' = eventsLeft - 1
    /\ \E t \in OtherTrees \ {remote} : remote' = t
    /\ remoteVer' = remoteVer + 1
    /\ UNCHANGED <<mvars, bvars, avars, dropped, rvars, now, nextId>>

(***************************************************************************)
(* Specification of a replica: replica A with every trigger, edit and      *)
(* failure, the other replicas writing the remote document                 *)
(***************************************************************************)
\* two signed-in, focused, online replicas that have both loaded the seed tree
\* the backend just started, no session, no data file
BackendAtStart ==
    /\ sessions = <<>>
    /\ userFile = NoFile
    /\ clock = 1
    /\ nextToken = 1
    /\ response = NoResponse

\* no auth callback is running
NoAuth == [pc |-> "idle", localData |-> NoTree, ok |-> FALSE, serverResult |-> NoTree,
           lastModified |-> 0, idAtLoad |-> 0, idAtDone |-> 0]

ReplicasAtStart ==
    /\ BackendAtStart
    /\ isLoaded = [r \in Replicas |-> TRUE]
    /\ isAuthLoading = [r \in Replicas |-> FALSE]
    /\ auth = [r \in Replicas |-> NoAuth]
    /\ data = [r \in Replicas |-> SeedTree]
    /\ stored = [r \in Replicas |-> SeedTree]
    /\ user = [r \in Replicas |-> TRUE]
    /\ isOnline = [r \in Replicas |-> TRUE]
    /\ hasFocus = [r \in Replicas |-> TRUE]
    /\ serverReachable = [r \in Replicas |-> TRUE]
    /\ serverLastModified = [r \in Replicas |-> ServerStamp(1)]
    /\ isSyncingRef = [r \in Replicas |-> FALSE]
    /\ syncInterval = [r \in Replicas |-> handleFocus(NoInterval)]
    /\ cycles = [r \in Replicas |-> {}]
    /\ timer = [r \in Replicas |-> Unarmed]
    /\ push = [r \in Replicas |-> NoPush]
    /\ skipped = [r \in Replicas |-> FALSE]
    /\ unpushed = [r \in Replicas |-> FALSE]
    /\ edited = [r \in Replicas |-> FALSE]
    /\ dropped = [r \in Replicas |-> FALSE]
    /\ mounted = [r \in Replicas |-> TRUE]
    /\ remote = SeedTree
    /\ remoteVer = 1
    /\ now = 1
    /\ nextId = 2
    /\ eventsLeft = MaxEvents

Init ==
    /\ mLocal = EmptyData
    /\ mRemote = EmptyData
    /\ mOut = EmptyData
    /\ mPhase = "none"
    /\ mNow = 0
    /\ item = NoItem
    /\ ReplicasAtStart

ReplicaStep(r) ==
    \/ Mutation(r)
    \/ Focus(r) \/ Blur(r) \/ IntervalTick(r) \/ Online(r) \/ Offline(r) \/ Refresh(r)
    \/ CycleStep(r)
    \/ TimerFires(r) \/ SaveOk(r) \/ SaveFails(r)

Next == ReplicaStep("A") \/ OtherWrites

Spec == Init /\ [][Next]_vars

\* A pending continuation of a cycle of r runs: the call it awaits settles,
\* with any outcome, or the timer of handleRefresh fires.  Of the steps of
\* Next these are the steps of CycleStep(r), and one is possible whenever a
\* cycle is in flight.
CycleAdvances(r) ==
    \E c \in cycles[r] :
        \/ cycles' = [cycles EXCEPT ![r] = @ \ {c}]
        \/ \E pc \in {"load", "shared", "hold"} : cycles' = Step(r, c, pc)

\* The event loop runs each pending continuation: an awaited call does not
\* stay pending forever and a set timer fires.
SpecFair == Spec /\ WF_cycles(CycleAdvances("A"))

\* The event loop also fires the set timers and settles the save call: while
\* the window has the focus the 60 s interval keeps calling syncWithServer
\* (452-454), the debounce timer fires (354), and an awaited
\* serverData.save returns (358).  Failures stay possible, within the budget
\* of events.
SpecLive ==
    /\ Spec
    /\ WF_cycles(CycleAdvances("A"))
    /\ WF_vars(IntervalTick("A"))
    /\ WF_vars(TimerFires("A"))
    /\ WF_vars(SaveOk("A"))

(***************************************************************************)
(* The replica store failing: localStorage.setItem throws (quota exceeded, *)
(* storage disabled) and storage.save (storage.ts 18-20) passes the        *)
(* exception on.  Both callers run inside React: the save effect (348) and *)
(* the state updater of the sync merge (198, 246).  Neither catches, no    *)
(* error boundary is rendered, and React unmounts a component tree whose   *)
(* render or effect throws: every effect's cleanup runs, the variables of  *)
(* the replica keep the last values of a state that is no longer rendered, *)
(* and no handler, effect or timer of the component runs any more.         *)
(***************************************************************************)
\* cleanups of 373 (save timer) and 466 (sync interval) on unmounting
Unmount(r) ==
    /\ mounted' = [mounted EXCEPT ![r] = FALSE]
    /\ timer' = [timer EXCEPT ![r] = Unarmed]
    /\ syncInterval' = [syncInterval EXCEPT ![r] = FocusCleanup(@)]

\* some of the trees one edit makes of the local tree
EditsOf(r) ==
    {addBucket(data[r], nextId, NewName)}
    \cup {deleteBucket(data[r], data[r].buckets[i].id, now + 1) : i \in LiveBuckets(data[r])}
    \cup {renameBucket(data[r], data[r].buckets[i].id, NewName) : i \in LiveBuckets(data[r])}

\* a user edit whose save effect throws at 348: setData has been applied, the
\* effect's cleanup has cleared the pending timer, the store is not written
\* and 351-371 are not reached
MutationStoreThrows(r) ==
    /\ mounted[r]
    /\ eventsLeft > 0
    /\ eventsLeft' = eventsLeft - 1
    /\ now' = now + 1
    /\ nextId' = nextId + 1
    /\ \E tree \in EditsOf(r) : data' = [data EXCEPT ![r] = tree]
    /\ edited' = [edited EXCEPT ![r] = TRUE]
    /\ unpushed' = [unpushed EXCEPT ![r] = TRUE]
    /\ Unmount(r)
    /\ UNCHANGED <<mvars, bvars, avars, dropped, skipped, stored, user, isOnline, hasFocus, serverReachable,
                   serverLastModified, isSyncingRef, cycles, push, remote, remoteVer>>

\* load() answers with the document and storage.save throws inside the
\* updater of 196-200: the render that runs it throws, none of the three
\* state updates of 196-202 is committed; the cycle awaits loadAll
MergeStoreThrows(r) ==
    /\ mounted[r]
    /\ eventsLeft > 0
    /\ eventsLeft' = eventsLeft - 1
    /\ \E c \in cycles[r] :
          /\ c.pc = "load"
          /\ cycles' = Step(r, c, "shared")
    /\ Unmount(r)
    /\ UNCHANGED <<mvars, bvars, avars, dropped, skipped, unpushed, edited, data, stored, user, isOnline, hasFocus,
                   serverReachable, serverLastModified, isSyncingRef, push,
                   remote, remoteVer, now, nextId>>

\* a continuation of a cycle of an unmounted replica: the calls return, the
\* state setters of 196-207 do nothing, the finally of 218-220 and the timer
\* of 277-282 reset the guard
UnmountedCycleStep(r) ==
    /\ ~mounted[r]
    /\ \E c \in cycles[r] :
          \/ /\ c.pc = "check"
             /\ cycles' = Step(r, c, IF RemoteStamp = c.lm THEN "shared" ELSE "load")
             /\ UNCHANGED isSyncingRef
          \/ /\ c.pc = "load"
             /\ cycles' = Step(r, c, "shared")
             /\ UNCHANGED isSyncingRef
          \/ /\ c.pc = "shared"
             /\ EndOfTry(r, c)
          \/ /\ c.pc = "hold"
             /\ isSyncingRef' = [isSyncingRef EXCEPT ![r] = FALSE]
             /\ cycles' = [cycles EXCEPT ![r] = @ \ {c}]
    /\ UNCHANGED <<mvars, bvars, avars, dropped, mounted, edited, skipped, unpushed, data, stored, user, isOnline,
                   hasFocus, serverReachable, serverLastModified, syncInterval, timer, push,
                   svars>>

\* the save call of an unmounted replica returns: the document is written
\* (api.ts 135-139), the setters of 359-361 do nothing
UnmountedSaveOk(r) ==
    /\ ~mounted[r]
    /\ push[r].active
    /\ remote' = push[r].tree
    /\ remoteVer' = remoteVer + 1
    /\ push' = [push EXCEPT ![r] = NoPush]
    /\ UNCHANGED <<mvars, bvars, avars, dropped, mounted, edited, skipped, unpushed, data, stored, user, isOnline,
                   hasFocus, serverReachable, serverLastModified, isSyncingRef, syncInterval,
                   cycles, timer, now, nextId, eventsLeft>>

StoreStep(r) ==
    \/ ReplicaStep(r)
    \/ MutationStoreThrows(r) \/ MergeStoreThrows(r)
    \/ UnmountedCycleStep(r) \/ UnmountedSaveOk(r)

NextStore == StoreStep("A") \/ OtherWrites

\* the event loop runs each pending continuation, as in SpecFair
SpecStore == Init /\ [][NextStore]_vars /\ WF_cycles(CycleAdvances("A"))

(***************************************************************************)
(* Specification of two replicas of one user: both add bookmarks, go       *)
(* offline and online, poll, merge and push; no call fails.  The event     *)
(* loop of each runs its pending continuations, its 60 s interval keeps    *)
(* firing while the window has the focus, its debounce timer fires and its *)
(* save call returns.                                                      *)
(***************************************************************************)
TwoStep(r) ==
    \/ AddBookmark(r)
    \/ Offline(r) \/ Online(r) \/ IntervalTick(r)
    \/ CheckSame(r) \/ CheckChanged(r) \/ LoadOk(r) \/ SharedDone(r)
    \/ TimerFires(r) \/ SaveOk(r)

NextTwo == \E r \in Replicas : TwoStep(r)

FairTwo(r) ==
    /\ WF_cycles(CycleAdvances(r))
    /\ WF_vars(IntervalTick(r))
    /\ WF_vars(TimerFires(r))
    /\ WF_vars(SaveOk(r))

SpecTwo == Init /\ [][NextTwo]_vars /\ FairTwo("A") /\ FairTwo("B")

(***************************************************************************)
(* Specification of the merge function alone                               *)
(***************************************************************************)
InitMerge ==
    /\ mLocal \in Trees
    /\ mRemote \in Trees
    /\ mOut = EmptyData
    /\ mPhase = "in"
    /\ mNow = 0
    /\ item = NoItem
    /\ ReplicasAtStart

CallMerge ==
    /\ mPhase = "in"
    /\ mOut' = mergeData(mLocal, mRemote)
    /\ mPhase' = "out"
    /\ UNCHANGED <<mLocal, mRemote, mNow, item, bvars, avars, rvars, svars>>

NextMerge == CallMerge

SpecMerge == InitMerge /\ [][NextMerge]_vars

(***************************************************************************)
(* Specification of the tombstone sweep alone                              *)
(***************************************************************************)
\* clock values before, at and after the end of every tombstone's retention
SweepTimes == 1..(MaxTime + Retention + 1)

InitSweep ==
    /\ mLocal \in Trees
    /\ mRemote = EmptyData
    /\ mOut = EmptyData
    /\ mPhase = "in"
    /\ mNow \in SweepTimes
    /\ item = NoItem
    /\ ReplicasAtStart

CallSweep ==
    /\ mPhase = "in"
    /\ mOut' = cleanupOldTombstones(mLocal, mNow)
    /\ mPhase' = "out"
    /\ UNCHANGED <<mLocal, mRemote, mNow, item, bvars, avars, rvars, svars>>

NextSweep == CallSweep

SpecSweep == InitSweep /\ [][NextSweep]_vars

(***************************************************************************)
(* Specification of a move followed by a merge: a replica that holds the   *)
(* remote tree moves one of its bookmarks to another category and then     *)
(* merges with the remote tree, which still has the bookmark where it was  *)
(***************************************************************************)
\* two buckets, three categories; the bookmarks are in bucket 1, category 1
MoveTrees ==
    {AppData(<<Bucket(1, "a", <<Category(1, "a", bms, 0), Category(2, "a", <<>>, 0)>>, 0, FALSE),
               Bucket(2, "a", <<Category(1, "a", <<>>, 0)>>, 0, FALSE)>>)
        : bms \in BookmarkLists}

\* the categories a bookmark of bucket 1, category 1 can be moved to
MoveTargets == {<<1, 2>>, <<2, 1>>}

InitMove ==
    /\ mRemote \in MoveTrees
    /\ mLocal = mRemote
    /\ mOut = EmptyData
    /\ mPhase = "in"
    /\ mNow = MaxTime + 1
    /\ item = NoItem
    /\ ReplicasAtStart

\* the user edits a bookmark that is shown (not deleted) and picks another
\* bucket or category for it
CallMove ==
    /\ mPhase = "in"
    /\ \E k \in LiveBookmarks(mLocal.buckets[1].categories[1]), target \in MoveTargets,
          title \in Titles :
          mLocal' = moveBookmark(mLocal, 1, 1, mLocal.buckets[1].categories[1].bookmarks[k].id,
                                 target[1], target[2], title, mNow)
    /\ mPhase' = "moved"
    /\ UNCHANGED <<mRemote, mOut, mNow, item, bvars, avars, rvars, svars>>

\* the next sync cycle merges the remote tree into the local one
MergeMoved ==
    /\ mPhase = "moved"
    /\ mOut' = mergeData(mLocal, mRemote)
    /\ mPhase' = "out"
    /\ UNCHANGED <<mLocal, mRemote, mNow, item, bvars, avars, rvars, svars>>

NextMove == CallMove \/ MergeMoved

SpecMove == InitMove /\ [][NextMove]_vars

(***************************************************************************)
(* Specification of the replica store alone: storage.load on any item, or  *)
(* storage.save of a tree followed by storage.load.  mLocal is the tree    *)
(* the claim is about: the item holds its text, the seed tree's text or no *)
(* tree, and it is the tree saved; mOut is the tree loaded.                *)
(***************************************************************************)
Items(t) ==
    {NoItem, EmptyText, BadText, Denied, JSONstringify(t), JSONstringify(SeedTree)}

InitStorage ==
    /\ mLocal \in Trees
    /\ mRemote = EmptyData
    /\ mOut = EmptyData
    /\ mPhase = "in"
    /\ mNow = 0
    /\ item \in Items(mLocal)
    /\ ReplicasAtStart

CallLoad ==
    /\ mPhase \in {"in", "saved"}
    /\ LET res == load(item)
       IN  /\ mOut' = res.value
           /\ mPhase' = IF res.threw THEN "loadThrew"
                         ELSE IF mPhase = "saved" THEN "reloaded" ELSE "loaded"
    /\ UNCHANGED <<mLocal, mRemote, mNow, item, bvars, avars, rvars, svars>>

CallSave ==
    /\ mPhase = "in"
    /\ LET res == save(item, mLocal)
       IN  /\ item' = res.item
           /\ mPhase' = IF res.threw THEN "saveThrew" ELSE "saved"
    /\ UNCHANGED <<mLocal, mRemote, mOut, mNow, bvars, avars, rvars, svars>>

NextStorage == CallLoad \/ CallSave

SpecStorage == InitStorage /\ [][NextStorage]_vars

(***************************************************************************)
(* The legacy backend (src/unnamed/part_003): sessions kept in a Map and   *)
(* in sessions.json, one user's data file, and the authenticated           *)
(* endpoints.  A request carries the token of its Authorization header, 0  *)
(* when it has none.                                                       *)
(***************************************************************************)
SessionLife == 2        \* 30 days, in clock units
MaxClock == 4           \* the server's clock runs from 1 to MaxClock
MaxTokens == 2          \* logins in a run

Tokens == 0..MaxTokens

Payloads == {"d1", "d2"}    \* req.body.data of a POST /api/data

HasSession(tok) == tok # 0 /\ tok \in DOMAIN sessions      \* token && sessions.has(token)

\* new Date(session.expiresAt) <= new Date()
IsExpired(tok) == sessions[tok].expiresAt <= clock

Without(m, gone) == [t \in DOMAIN m \ gone |-> m[t]]

Respond(req, tok, status, d, lm) ==
    response' = [req |-> req, token |-> tok, status |-> status, data |-> d, lastModified |-> lm]

\* POST /api/auth/login (343-385) with credentials that match or do not
Login ==
    \E ok \in BOOLEAN :
        /\ nextToken <= MaxTokens
        /\ IF ok
           THEN /\ sessions' = [t \in DOMAIN sessions \cup {nextToken} |->
                                  IF t = nextToken
                                  THEN [username |-> "u", expiresAt |-> clock + SessionLife]
                                  ELSE sessions[t]]
                /\ nextToken' = nextToken + 1
                /\ Respond("login", nextToken, 200, "none", 0)
           ELSE /\ Respond("login", 0, 401, "none", 0)
                /\ UNCHANGED <<sessions, nextToken>>
        /\ UNCHANGED <<userFile, clock, mvars, avars, rvars, svars>>

\* POST /api/auth/logout (387-396)
Logout ==
    \E tok \in Tokens :
        /\ sessions' = IF tok # 0 THEN Without(sessions, {tok}) ELSE sessions
        /\ Respond("logout", tok, 200, "none", 0)
        /\ UNCHANGED <<userFile, clock, nextToken, mvars, avars, rvars, svars>>

\* GET /api/auth/session (398-414)
GetSession ==
    \E tok \in Tokens :
        /\ IF ~HasSession(tok)
           THEN /\ Respond("session", tok, 401, "none", 0)
                /\ UNCHANGED sessions
           ELSE IF IsExpired(tok)
           THEN /\ sessions' = Without(sessions, {tok})
                /\ Respond("session", tok, 401, "none", 0)
           ELSE /\ Respond("session", tok, 200, "none", 0)
                /\ UNCHANGED sessions
        /\ UNCHANGED <<userFile, clock, nextToken, mvars, avars, rvars, svars>>

\* GET /api/data (418-431)
GetData ==
    \E tok \in Tokens :
        /\ IF ~HasSession(tok)
           THEN Respond("getData", tok, 401, "none", 0)
           ELSE Respond("getData", tok, 200,
                        IF userFile = NoFile THEN "empty" ELSE userFile.data,
                        userFile.lastModified)
        /\ UNCHANGED <<sessions, userFile, clock, nextToken, mvars, avars, rvars, svars>>

\* POST /api/data (434-460); the file is written with the server's time
PostData ==
    \E tok \in Tokens, d \in Payloads :
        /\ IF ~HasSession(tok)
           THEN /\ Respond("postData", tok, 401, "none", 0)
                /\ UNCHANGED userFile
           ELSE /\ userFile' = [data |-> d, lastModified |-> clock]
                /\ Respond("postData", tok, 200, "none", clock)
        /\ UNCHANGED <<sessions, clock, nextToken, mvars, avars, rvars, svars>>

\* GET /api/data/check (463-474)
CheckData ==
    \E tok \in Tokens :
        /\ IF ~HasSession(tok)
           THEN Respond("checkData", tok, 401, "none", 0)
           ELSE Respond("checkData", tok, 200, "none", userFile.lastModified)
        /\ UNCHANGED <<sessions, userFile, clock, nextToken, mvars, avars, rvars, svars>>

\* 234-248 cleanExpiredSessions, run every hour (257)
cleanExpiredSessions ==
    /\ sessions' = Without(sessions, {t \in DOMAIN sessions : IsExpired(t)})
    /\ UNCHANGED <<userFile, clock, nextToken, response, mvars, avars, rvars, svars>>

\* the server restarts: 252 loadSessions (201-222) keeps the sessions of
\* sessions.json that have not expired
Restart ==
    /\ sessions' = Without(sessions, {t \in DOMAIN sessions : ~(sessions[t].expiresAt > clock)})
    /\ response' = NoResponse
    /\ UNCHANGED <<userFile, clock, nextToken, mvars, avars, rvars, svars>>

\* time passes on the server
Tick ==
    /\ clock < MaxClock
    /\ clock' = clock + 1
    /\ UNCHANGED <<sessions, userFile, nextToken, response, mvars, avars, rvars, svars>>

NextServer ==
    \/ Login \/ Logout \/ GetSession \/ GetData \/ PostData \/ CheckData
    \/ cleanExpiredSessions \/ Restart \/ Tick

SpecServer == Init /\ [][NextServer]_vars

(***************************************************************************)
(* Reading a merge: the copies of one entity in the two inputs and in the  *)
(* output, matched by id under the same parent.                            *)
(***************************************************************************)
Ids(list) == {list[i].id : i \in 1..Len(list)}

ById(list, k) == list[CHOOSE i \in 1..Len(list) : list[i].id = k]

UniqueIds(list) == \A i, j \in 1..Len(list) : list[i].id = list[j].id => i = j

InBoth(l, r) == Ids(l) \cap Ids(r)

LB(b) == ById(mLocal.buckets, b)
RB(b) == ById(mRemote.buckets, b)
OB(b) == ById(mOut.buckets, b)
BothBuckets == InBoth(mLocal.buckets, mRemote.buckets)

LC(b, c) == ById(LB(b).categories, c)
RC(b, c) == ById(RB(b).categories, c)
OC(b, c) == ById(OB(b).categories, c)
BothCats(b) == InBoth(LB(b).categories, RB(b).categories)

LX(b, c, x) == ById(LC(b, c).bookmarks, x)
RX(b, c, x) == ById(RC(b, c).bookmarks, x)
OX(b, c, x) == ById(OC(b, c).bookmarks, x)
BothBms(b, c) == InBoth(LC(b, c).bookmarks, RC(b, c).bookmarks)

OutHasBucket(b) == b \in Ids(mOut.buckets)
OutHasCat(b, c) == OutHasBucket(b) /\ c \in Ids(OB(b).categories)
OutHasBm(b, c, x) == OutHasCat(b, c) /\ x \in Ids(OC(b, c).bookmarks)

\* every (bucket, category) and (bucket, category, bookmark) path present in both inputs
BothCatPaths == {p \in ChildIds \X ChildIds :
                    p[1] \in BothBuckets /\ p[2] \in BothCats(p[1])}

BothBmPaths == {p \in ChildIds \X ChildIds \X ChildIds :
                    /\ p[1] \in BothBuckets
                    /\ p[2] \in BothCats(p[1])
                    /\ p[3] \in BothBms(p[1], p[2])}

Merged == mPhase = "out"

(***************************************************************************)
(* C1  Tombstone monotonicity of mergeData: a bucket, category or bookmark *)
(* present under the same parent in both inputs is deleted in the output   *)
(* whenever it is deleted in at least one input.                           *)
(***************************************************************************)
C1_TombstoneMonotonicity ==
    Merged =>
        /\ \A b \in BothBuckets :
              /\ OutHasBucket(b)
              /\ (LB(b).deleted \/ RB(b).deleted) => OB(b).deleted
        /\ \A p \in BothCatPaths :
              /\ OutHasCat(p[1], p[2])
              /\ (LC(p[1], p[2]).deleted \/ RC(p[1], p[2]).deleted)
                    => OC(p[1], p[2]).deleted
        /\ \A p \in BothBmPaths :
              /\ OutHasBm(p[1], p[2], p[3])
              /\ (LX(p[1], p[2], p[3]).deleted \/ RX(p[1], p[2], p[3]).deleted)
                    => OX(p[1], p[2], p[3]).deleted

\* a bookmark deleted locally whose remote copy is live and newer, merged
C1_Witness ==
    /\ Merged
    /\ \E p \in BothBmPaths :
          /\ LX(p[1], p[2], p[3]).deleted
          /\ ~RX(p[1], p[2], p[3]).deleted
          /\ RX(p[1], p[2], p[3]).updatedAt > LX(p[1], p[2], p[3]).updatedAt
          /\ OX(p[1], p[2], p[3]).deleted

(***************************************************************************)
(* C4  Union completeness of mergeData: every bucket id of either input is *)
(* in the output; every category id an output bucket has in either input   *)
(* is in that bucket; every bookmark id an output category has in either   *)
(* input is in that category.                                              *)
(***************************************************************************)
CatIdsIn(tree, b) ==
    IF b \in Ids(tree.buckets) THEN Ids(ById(tree.buckets, b).categories) ELSE {}

BmIdsIn(tree, b, c) ==
    IF c \in CatIdsIn(tree, b)
    THEN Ids(ById(ById(tree.buckets, b).categories, c).bookmarks)
    ELSE {}

C4_UnionCompleteness ==
    Merged =>
        /\ Ids(mLocal.buckets) \cup Ids(mRemote.buckets) \subseteq Ids(mOut.buckets)
        /\ \A b \in Ids(mOut.buckets) :
              /\ CatIdsIn(mLocal, b) \cup CatIdsIn(mRemote, b) \subseteq CatIdsIn(mOut, b)
              /\ \A c \in CatIdsIn(mOut, b) :
                    BmIdsIn(mLocal, b, c) \cup BmIdsIn(mRemote, b, c)
                        \subseteq BmIdsIn(mOut, b, c)

\* a bucket on both sides with a category only the remote has and one only
\* the local has, both in the output
C4_Witness ==
    /\ Merged
    /\ \E b \in BothBuckets :
          /\ CatIdsIn(mRemote, b) \ CatIdsIn(mLocal, b) # {}
          /\ CatIdsIn(mLocal, b) \ CatIdsIn(mRemote, b) # {}
          /\ Cardinality(CatIdsIn(mOut, b)) = 2

(***************************************************************************)
(* C5  Leaf timestamp dominance: a bookmark present in the same category   *)
(* on both sides, deleted on neither, is merged to exactly the remote      *)
(* record when remote.updatedAt > local.updatedAt and to exactly the local *)
(* record otherwise, ties included.                                        *)
(***************************************************************************)
C5_LeafTimestampDominance ==
    Merged =>
        \A p \in BothBmPaths :
            LET l == LX(p[1], p[2], p[3])
                r == RX(p[1], p[2], p[3])
            IN  (~l.deleted /\ ~r.deleted) =>
                    /\ OutHasBm(p[1], p[2], p[3])
                    /\ OX(p[1], p[2], p[3]) = IF r.updatedAt > l.updatedAt THEN r ELSE l

\* a tie on updatedAt between copies that differ: the local record is kept
C5_Witness ==
    /\ Merged
    /\ \E p \in BothBmPaths :
          LET l == LX(p[1], p[2], p[3])
              r == RX(p[1], p[2], p[3])
          IN  /\ ~l.deleted /\ ~r.deleted
              /\ l.updatedAt = r.updatedAt
              /\ l.title # r.title
              /\ OX(p[1], p[2], p[3]) = l

(***************************************************************************)
(* C6  Deleted-bookmark merge rule: a bookmark present on both sides with  *)
(* at least one copy deleted is merged to deleted = true, deletedAt =      *)
(* local.deletedAt when local has one and remote.deletedAt otherwise, and  *)
(* every other field from the remote copy, whatever the updatedAt values.  *)
(***************************************************************************)
C6_DeletedBookmarkRule ==
    Merged =>
        \A p \in BothBmPaths :
            LET l == LX(p[1], p[2], p[3])
                r == RX(p[1], p[2], p[3])
            IN  (l.deleted \/ r.deleted) =>
                    /\ OutHasBm(p[1], p[2], p[3])
                    /\ OX(p[1], p[2], p[3]).deleted
                    /\ OX(p[1], p[2], p[3]).deletedAt =
                          IF l.deletedAt # 0 THEN l.deletedAt ELSE r.deletedAt
                    /\ OX(p[1], p[2], p[3]).id = r.id
                    /\ OX(p[1], p[2], p[3]).title = r.title
                    /\ OX(p[1], p[2], p[3]).updatedAt = r.updatedAt

\* both copies deleted at different times, the local copy the newer record:
\* the output carries local's deletedAt on remote's fields
C6_Witness ==
    /\ Merged
    /\ \E p \in BothBmPaths :
          LET l == LX(p[1], p[2], p[3])
              r == RX(p[1], p[2], p[3])
          IN  /\ l.deleted /\ r.deleted
              /\ l.deletedAt # r.deletedAt
              /\ l.updatedAt > r.updatedAt
              /\ l.title # r.title
              /\ OX(p[1], p[2], p[3]).deletedAt = l.deletedAt
              /\ OX(p[1], p[2], p[3]).title = r.title

(***************************************************************************)
(* C7  Name precedence: a bucket, or a category within a bucket, present   *)
(* in both inputs gets remote's name in every case; its other non-child    *)
(* fields come from local.                                                 *)
(***************************************************************************)
\* the claim as stated: every non-child field but the name is local's
C7_NameRemoteRestLocal ==
    Merged =>
        /\ \A b \in BothBuckets :
              /\ OutHasBucket(b)
              /\ OB(b).name = RB(b).name
              /\ OB(b).id = LB(b).id
              /\ OB(b).isShared = LB(b).isShared
              /\ OB(b).deleted = LB(b).deleted
              /\ OB(b).deletedAt = LB(b).deletedAt
        /\ \A p \in BothCatPaths :
              /\ OutHasCat(p[1], p[2])
              /\ OC(p[1], p[2]).name = RC(p[1], p[2]).name
              /\ OC(p[1], p[2]).id = LC(p[1], p[2]).id
              /\ OC(p[1], p[2]).deleted = LC(p[1], p[2]).deleted
              /\ OC(p[1], p[2]).deletedAt = LC(p[1], p[2]).deletedAt

\* C7 as amended: the name is remote's, id and isShared are local's, and the
\* tombstone pair is combined: deleted when either copy is, deletedAt local's
\* when local has one and remote's otherwise
C7_NamePrecedence ==
    Merged =>
        /\ \A b \in BothBuckets :
              /\ OutHasBucket(b)
              /\ OB(b).name = RB(b).name
              /\ OB(b).id = LB(b).id
              /\ OB(b).isShared = LB(b).isShared
              /\ OB(b).deleted = (LB(b).deleted \/ RB(b).deleted)
              /\ OB(b).deletedAt =
                    IF LB(b).deletedAt # 0 THEN LB(b).deletedAt ELSE RB(b).deletedAt
        /\ \A p \in BothCatPaths :
              /\ OutHasCat(p[1], p[2])
              /\ OC(p[1], p[2]).name = RC(p[1], p[2]).name
              /\ OC(p[1], p[2]).id = LC(p[1], p[2]).id
              /\ OC(p[1], p[2]).deleted =
                    (LC(p[1], p[2]).deleted \/ RC(p[1], p[2]).deleted)
              /\ OC(p[1], p[2]).deletedAt =
                    IF LC(p[1], p[2]).deletedAt # 0 THEN LC(p[1], p[2]).deletedAt
                    ELSE RC(p[1], p[2]).deletedAt

\* a bucket on both sides with different names and isShared values, the
\* remote copy deleted and the local one not: the merged bucket has the
\* remote name
C7_Witness ==
    /\ Merged
    /\ \E b \in BothBuckets :
          /\ LB(b).name # RB(b).name
          /\ LB(b).isShared # RB(b).isShared
          /\ ~LB(b).deleted /\ RB(b).deleted
          /\ OB(b).name = RB(b).name

(***************************************************************************)
(* C8  Idempotence: for a well-formed tree T (ids unique within each       *)
(* parent, deletedAt present exactly when deleted), mergeData(T, T) = T:   *)
(* the same entities in the same order with the same field values.         *)
(***************************************************************************)
WellFormedTomb(e) == e.deleted <=> e.deletedAt # 0

WellFormed(tree) ==
    /\ UniqueIds(tree.buckets)
    /\ \A i \in 1..Len(tree.buckets) :
          LET b == tree.buckets[i]
          IN  /\ WellFormedTomb(b)
              /\ UniqueIds(b.categories)
              /\ \A j \in 1..Len(b.categories) :
                    LET c == b.categories[j]
                    IN  /\ WellFormedTomb(c)
                        /\ UniqueIds(c.bookmarks)
                        /\ \A k \in 1..Len(c.bookmarks) : WellFormedTomb(c.bookmarks[k])

C8_Idempotence ==
    (Merged /\ mLocal = mRemote /\ WellFormed(mLocal)) => mOut = mLocal

\* a tree merged with itself that holds two bookmarks, one of them a tombstone
C8_Witness ==
    /\ Merged
    /\ mLocal = mRemote
    /\ WellFormed(mLocal)
    /\ \E p \in BothBmPaths : LX(p[1], p[2], p[3]).deleted
    /\ \E p \in BothBmPaths : ~LX(p[1], p[2], p[3]).deleted
    /\ mOut = mLocal

\* the children an input or the output has under a parent, <<>> when the
\* parent is absent
CatsOf(tree, b) ==
    IF b \in Ids(tree.buckets) THEN ById(tree.buckets, b).categories ELSE <<>>

BmsOf(tree, b, c) ==
    IF c \in Ids(CatsOf(tree, b)) THEN ById(CatsOf(tree, b), c).bookmarks ELSE <<>>

\* the children of list only that other does not have
OnlyIn(list, other) == Ids(list) \ Ids(other)

\* one child list passes its one-sided children through: each child that only
\* one input has is in the output exactly as in that input
PassedThrough(l, r, o) ==
    /\ \A k \in OnlyIn(l, r) : k \in Ids(o) /\ ById(o, k) = ById(l, k)
    /\ \A k \in OnlyIn(r, l) : k \in Ids(o) /\ ById(o, k) = ById(r, k)

\* C19: an entity present in only one input of mergeData is in the output
\* unchanged, with all its descendants: a bucket only local or only remote
\* has, a category on one side of a bucket both have, a bookmark on one side
\* of a category both have.
C19_OneSidedPassThrough ==
    Merged =>
        /\ PassedThrough(mLocal.buckets, mRemote.buckets, mOut.buckets)
        /\ \A b \in BothBuckets :
              PassedThrough(LB(b).categories, RB(b).categories, CatsOf(mOut, b))
        /\ \A p \in BothCatPaths :
              PassedThrough(LC(p[1], p[2]).bookmarks, RC(p[1], p[2]).bookmarks,
                            BmsOf(mOut, p[1], p[2]))

\* local and remote each hold a bucket the other lacks, the remote one with a
\* category and a bookmark in it, and the output holds both as they were
C19_Witness ==
    /\ Merged
    /\ \E b \in OnlyIn(mRemote.buckets, mLocal.buckets) :
          /\ RB(b).categories # <<>>
          /\ RB(b).categories[1].bookmarks # <<>>
          /\ OutHasBucket(b)
          /\ OB(b) = RB(b)
    /\ \E b \in OnlyIn(mLocal.buckets, mRemote.buckets) :
          OutHasBucket(b) /\ OB(b) = LB(b)

IdSeq(list) == [i \in 1..Len(list) |-> list[i].id]

\* the ids of l in their order, then the ids only r has in r's order
LocalThenRemoteOnly(l, r) ==
    IdSeq(l) \o SelectSeq(IdSeq(r), LAMBDA k : k \notin Ids(l))

\* C20: every child sequence of mergeData's output lists the local children
\* in their local order, then the remote-only children in their remote order.
C20_OrderPreservation ==
    Merged =>
        /\ IdSeq(mOut.buckets) = LocalThenRemoteOnly(mLocal.buckets, mRemote.buckets)
        /\ \A b \in Ids(mOut.buckets) :
              /\ IdSeq(CatsOf(mOut, b)) =
                    LocalThenRemoteOnly(CatsOf(mLocal, b), CatsOf(mRemote, b))
              /\ \A c \in Ids(CatsOf(mOut, b)) :
                    IdSeq(BmsOf(mOut, b, c)) =
                        LocalThenRemoteOnly(BmsOf(mLocal, b, c), BmsOf(mRemote, b, c))

\* both inputs hold the same two bookmarks in opposite orders: the output
\* keeps local's order
C20_Witness ==
    /\ Merged
    /\ IdSeq(BmsOf(mLocal, 1, 1)) = <<2, 1>>
    /\ IdSeq(BmsOf(mRemote, 1, 1)) = <<1, 2>>
    /\ IdSeq(BmsOf(mOut, 1, 1)) = <<2, 1>>

(***************************************************************************)
(* Claims about cleanupOldTombstones: mLocal is the tree before the sweep, *)
(* mOut the tree after it, mNow the clock it read                          *)
(***************************************************************************)
Swept == mPhase = "out" /\ mNow > 0

\* the tombstone of e is older than the retention
OlderThanRetention(e) == e.deleted /\ mNow - e.deletedAt > Retention

\* the tombstone of e is at least as old as the retention
Expired(e) == e.deleted /\ e.deletedAt # 0 /\ mNow - e.deletedAt >= Retention

Unexpired(list) == SelectSeq(list, LAMBDA e : ~Expired(e))

WithoutChildren(e) ==
    IF "categories" \in DOMAIN e THEN [e EXCEPT !.categories = <<>>]
    ELSE IF "bookmarks" \in DOMAIN e THEN [e EXCEPT !.bookmarks = <<>>]
    ELSE e

\* C18 as stated: the sweep removes an entity exactly when it is deleted and
\* now - deletedAt > retention; every other entity, one whose tombstone is
\* exactly as old as the retention included, stays present and unchanged.
C18_SweepRuleAsStated ==
    Swept =>
        \A b \in Ids(mLocal.buckets) :
            /\ OlderThanRetention(LB(b)) <=> ~OutHasBucket(b)
            /\ OutHasBucket(b) => WithoutChildren(OB(b)) = WithoutChildren(LB(b))
            /\ \A c \in Ids(LB(b).categories) :
                  /\ OlderThanRetention(LC(b, c)) <=> ~OutHasCat(b, c)
                  /\ OutHasCat(b, c) =>
                        WithoutChildren(OC(b, c)) = WithoutChildren(LC(b, c))
                  /\ \A x \in Ids(LC(b, c).bookmarks) :
                        /\ OlderThanRetention(LX(b, c, x)) <=> ~OutHasBm(b, c, x)
                        /\ OutHasBm(b, c, x) => OX(b, c, x) = LX(b, c, x)

\* C18 as the code has it: the sweep removes an entity exactly when it is
\* deleted, has a deletedAt and now - deletedAt >= retention, or when its
\* bucket or category is removed; the entities that stay keep their order and
\* their fields.
C18_SweepRule ==
    Swept =>
        /\ IdSeq(mOut.buckets) = IdSeq(Unexpired(mLocal.buckets))
        /\ \A b \in Ids(mOut.buckets) :
              /\ WithoutChildren(OB(b)) = WithoutChildren(LB(b))
              /\ IdSeq(OB(b).categories) = IdSeq(Unexpired(LB(b).categories))
              /\ \A c \in Ids(OB(b).categories) :
                    /\ WithoutChildren(OC(b, c)) = WithoutChildren(LC(b, c))
                    /\ OC(b, c).bookmarks = Unexpired(LC(b, c).bookmarks)

\* one bookmark deleted exactly a retention ago is removed, another deleted
\* one clock unit later stays as it was
C18_Witness ==
    /\ Swept
    /\ \E x, y \in Ids(BmsOf(mLocal, 1, 1)) :
          /\ LX(1, 1, x).deleted
          /\ mNow - LX(1, 1, x).deletedAt = Retention
          /\ x \notin Ids(BmsOf(mOut, 1, 1))
          /\ LX(1, 1, y).deleted
          /\ mNow - LX(1, 1, y).deletedAt = Retention - 1
          /\ y \in Ids(BmsOf(mOut, 1, 1))
          /\ OX(1, 1, y) = LX(1, 1, y)

(***************************************************************************)
(* Claims about the replicas and the remote document                       *)
(***************************************************************************)
\* every bucket, category and bookmark of a tree, by its path of ids
Entities(tree) ==
    LET B == tree.buckets
    IN  {[path |-> <<B[i].id>>, deleted |-> B[i].deleted] : i \in 1..Len(B)}
        \cup UNION {{[path |-> <<B[i].id, B[i].categories[j].id>>,
                      deleted |-> B[i].categories[j].deleted]
                     : j \in 1..Len(B[i].categories)} : i \in 1..Len(B)}
        \cup UNION {UNION {{[path |-> <<B[i].id, B[i].categories[j].id,
                                        B[i].categories[j].bookmarks[k].id>>,
                             deleted |-> B[i].categories[j].bookmarks[k].deleted]
                            : k \in 1..Len(B[i].categories[j].bookmarks)}
                           : j \in 1..Len(B[i].categories)} : i \in 1..Len(B)}

\* no entity deleted in tree old is held undeleted by tree new
TombstonesKept(old, new) ==
    \A e \in Entities(old) :
        e.deleted => [path |-> e.path, deleted |-> FALSE] \notin Entities(new)

BookmarkOne(tree) == tree.buckets[1].categories[1].bookmarks[1]

\* C2: once the remote document holds an entity with deleted = true, a push by
\* a replica never leaves the remote document holding that entity undeleted,
\* also when the pushing replica is stale: it still has the entity undeleted
\* and has not merged the deletion.
C2_RemoteTombstonesKept ==
    [][\A r \in Replicas : SaveOk(r) => TombstonesKept(remote, remote')]_vars

\* C3: no step of a sync cycle (syncWithServer or handleRefresh) turns an
\* entity that is deleted in the replica's local tree into an undeleted one,
\* whatever the remote document holds.
C3_LocalTombstonesKept ==
    [][\A r \in Replicas : CycleStep(r) => TombstonesKept(data[r], data'[r])]_vars

\* a cycle has merged a remote bookmark that is undeleted and was updated
\* after the local deletion: the merged bookmark carries the remote fields and
\* is still deleted
C3_Witness ==
    /\ \E c \in cycles["A"] : c.pc = "shared"
    /\ serverLastModified["A"] = RemoteStamp
    /\ ~BookmarkOne(remote).deleted
    /\ BookmarkOne(data["A"]).deleted
    /\ BookmarkOne(remote).updatedAt > BookmarkOne(data["A"]).deletedAt
    /\ BookmarkOne(data["A"]).title = BookmarkOne(remote).title
    /\ BookmarkOne(data["A"]).title # BookmarkOne(SeedTree).title

\* C9: at most one sync cycle of a replica is between its check call and its
\* release of the guard, and a call of syncWithServer or handleRefresh made
\* from any trigger while a cycle is in flight starts no cycle, issues no
\* call and changes no data.
C9_SyncGuard ==
    [][\A r \in Replicas :
          /\ Cardinality(cycles'[r]) <= 1
          /\ (/\ cycles[r] # {}
              /\ Focus(r) \/ IntervalTick(r) \/ Online(r) \/ Refresh(r))
             => /\ skipped'[r]
                /\ UNCHANGED <<cycles, isSyncingRef, data, serverLastModified,
                               push, remote, remoteVer>>
                \* 1005: handleOnline itself sets serverReachable
                /\ Online(r) \/ UNCHANGED serverReachable]_vars

\* the guard has turned a call away while a cycle is awaiting its check
C9_Witness ==
    /\ skipped["A"]
    /\ \E c \in cycles["A"] : c.pc = "check"
    /\ Cardinality(cycles["A"]) = 1

\* C10: whenever the guard is set it is later released, whatever the outcome
\* of the cycle that set it.
C10_GuardReleased ==
    \A r \in Replicas : isSyncingRef[r] ~> ~isSyncingRef[r]

\* a cycle has failed (its check answered with an error or a call threw) and
\* the guard is free again: nothing but the failure has happened
C10_Witness ==
    /\ ~isSyncingRef["A"]
    /\ cycles["A"] = {}
    /\ ~serverReachable["A"]
    /\ isOnline["A"]
    /\ ~push["A"].active
    /\ data["A"] = SeedTree
    /\ remote = SeedTree
    /\ eventsLeft = MaxEvents - 1

\* C14: a push that finds the remote stamp different from the replica's last
\* known stamp saves the merge of the local tree with the remote tree, so
\* that it overwrites nothing another replica wrote.
C14_SaveBeforeMerge ==
    [][\A r \in Replicas :
          (SaveOk(r) /\ RemoteStamp # serverLastModified[r])
              => remote' = mergeData(push[r].tree, remote)]_vars

PathsOf(tree) == {e.path : e \in Entities(tree)}

\* C15: no step of a replica (a step of a sync cycle, successful or failing,
\* a push, successful or failing, a connectivity or focus change, an edit)
\* removes a bucket, category or bookmark id from the replica's local tree,
\* and after every step the replica store holds every id of the local tree.
C15_NoLocalLoss ==
    [][\A r \in Replicas :
          /\ PathsOf(data[r]) \subseteq PathsOf(data'[r])
          /\ PathsOf(data'[r]) \subseteq PathsOf(stored'[r])]_vars

\* a cycle has merged a remote tree written by another replica, which lacks
\* the bucket added locally: the bucket is still in the local tree and store
C15_Witness ==
    /\ \E c \in cycles["A"] : c.pc = "shared"
    /\ serverLastModified["A"] = RemoteStamp
    /\ remote \in OtherTrees
    /\ 2 \in Ids(data["A"].buckets)
    /\ 2 \notin Ids(remote.buckets)
    /\ stored["A"] = data["A"]
    /\ data["A"] # SeedTree

\* C16: while a replica is offline no trigger starts a remote call: no sync
\* cycle (check, then load) begins and no save call is made until the
\* online transition.
C16_NoCallsOffline ==
    [][\A r \in Replicas :
          (~isOnline[r] /\ ~isOnline'[r])
              => /\ cycles'[r] \subseteq cycles[r] \cup {c \in cycles'[r] : c.pc # "check"}
                 /\ push'[r].active => push[r].active]_vars

\* C17: in a sync cycle a failed check and a failed load (an error answer or
\* a thrown exception) each leave serverReachable false.
C17_FailureMarksUnreachable ==
    [][\A r \in Replicas :
          (CheckError(r) \/ LoadError(r) \/ Throws(r)) => ~serverReachable'[r]]_vars

\* C11: the edits made within one debounce window, signed in, online and with
\* no sync cycle in flight, cause one save call with the tree after the last
\* of them: each edit leaves one pending timer, which holds the local tree
\* as it then is; a pending timer always holds the current local tree; and
\* when it fires with no cycle in flight it starts one save call of that
\* tree and leaves no timer pending.
C11_DebounceCollapse ==
    [][\A r \in Replicas :
          /\ timer'[r].armed => timer'[r].tree = data'[r]
          /\ (Mutation(r) /\ user[r] /\ isOnline[r] /\ ~isSyncingRef[r])
                => timer'[r] = [armed |-> TRUE, tree |-> data'[r]]
          /\ (TimerFires(r) /\ ~isSyncingRef[r])
                => /\ push'[r] = [active |-> TRUE, tree |-> data[r]]
                   /\ ~timer'[r].armed]_vars

\* two edits were made in one window and its timer has fired: one save call
\* is in flight, it carries the tree after both edits, no timer is pending
\* and no other save has reached the remote document
C11_Witness ==
    /\ push["A"].active
    /\ push["A"].tree = data["A"]
    /\ ~timer["A"].armed
    /\ now = 3
    /\ eventsLeft = MaxEvents - 2
    /\ remoteVer = 1

\* C12: a replica whose latest edit got no push (it was made offline or with
\* a sync cycle in flight, or its timer fired during a cycle) and which is
\* online with its last cycle completed and the server marked reachable
\* eventually has a push of its local tree scheduled, or the remote document
\* equal to its local tree, unless it goes offline again.
C12_EventualPush ==
    \A r \in Replicas :
        (unpushed[r] /\ isOnline[r] /\ serverReachable[r] /\ cycles[r] = {})
            ~> (~unpushed[r] \/ ~isOnline[r] \/ remote = data[r])

\* the replica is online and reachable after a cycle, its latest edit is not
\* in the remote document, and no timer and no save call is pending
C12_Witness ==
    /\ unpushed["A"]
    /\ isOnline["A"]
    /\ serverReachable["A"]
    /\ cycles["A"] = {}
    /\ ~isSyncingRef["A"]
    /\ ~timer["A"].armed
    /\ ~push["A"].active
    /\ remote # data["A"]

\* the bookmarks a tree holds, each by the ids of its bucket, category and own
BookmarksOf(tree) == {p \in PathsOf(tree) : Len(p) = 3}

\* every bookmark a replica holds is in the remote document and in both
\* replicas' local trees
Converged ==
    LET all == UNION {BookmarksOf(data[r]) : r \in Replicas}
    IN  /\ all \subseteq BookmarksOf(remote)
        /\ \A r \in Replicas : all \subseteq BookmarksOf(data[r])

\* C13: when two replicas have added bookmarks and from some time on both
\* stay online and focused with their sync triggers firing, then after the
\* last addition the remote document and both local trees come to hold every
\* bookmark added on either replica.
C13_Convergence ==
    <>[](\A r \in Replicas : edited[r] /\ isOnline[r] /\ hasFocus[r]) => []<>Converged

\* both replicas have added a bookmark, both are online and idle, nothing is
\* pending, and the remote document lacks one of the two bookmarks
C13_Witness ==
    /\ \A r \in Replicas :
          /\ edited[r] /\ isOnline[r] /\ hasFocus[r]
          /\ cycles[r] = {} /\ ~timer[r].armed /\ ~push[r].active
          /\ serverLastModified[r] = RemoteStamp
    /\ Cardinality(UNION {BookmarksOf(data[r]) : r \in Replicas}) = 3
    /\ ~Converged

\* C21: the empty tree is an identity of mergeData on well-formed trees:
\* merging a tree with an empty server tree, or an empty local tree with a
\* server tree, gives that tree, with the same entities in the same order.
C21_EmptyIdentity ==
    Merged =>
        /\ (mRemote = EmptyData /\ WellFormed(mLocal)) => mOut = mLocal
        /\ (mLocal = EmptyData /\ WellFormed(mRemote)) => mOut = mRemote

\* an empty local tree was merged with a server tree of two buckets, the
\* second one first, one of them holding a category with a bookmark
C21_Witness ==
    /\ Merged
    /\ mLocal = EmptyData
    /\ WellFormed(mRemote)
    /\ Len(mRemote.buckets) = 2
    /\ mRemote.buckets[1].id = 2
    /\ BmIdsIn(mRemote, 1, 1) # {}
    /\ mOut = mRemote

\* the tombstones of a tree: path and deletedAt of every entity that carries one
TombstonesOf(tree) ==
    LET B == tree.buckets
    IN  {[path |-> <<B[i].id>>, deletedAt |-> B[i].deletedAt]
           : i \in {i \in 1..Len(B) : B[i].deleted /\ B[i].deletedAt # 0}}
        \cup UNION {{[path |-> <<B[i].id, B[i].categories[j].id>>,
                      deletedAt |-> B[i].categories[j].deletedAt]
                     : j \in {j \in 1..Len(B[i].categories) :
                                B[i].categories[j].deleted /\ B[i].categories[j].deletedAt # 0}}
                    : i \in 1..Len(B)}
        \cup UNION {UNION {{[path |-> <<B[i].id, B[i].categories[j].id,
                                        B[i].categories[j].bookmarks[k].id>>,
                             deletedAt |-> B[i].categories[j].bookmarks[k].deletedAt]
                            : k \in {k \in 1..Len(B[i].categories[j].bookmarks) :
                                       /\ B[i].categories[j].bookmarks[k].deleted
                                       /\ B[i].categories[j].bookmarks[k].deletedAt # 0}}
                           : j \in 1..Len(B[i].categories)} : i \in 1..Len(B)}

\* no tombstone of tree old has an earlier deletedAt in tree new
NoEarlierTombstone(old, new) ==
    \A e \in TombstonesOf(old) : \A f \in TombstonesOf(new) :
        e.path = f.path => f.deletedAt >= e.deletedAt

\* C22: across every step (merge, push, edit) the deletedAt of an entity that
\* carries a tombstone is never replaced by an earlier one, neither in a
\* replica's local tree nor in the remote document.
C22_DeletedAtMonotone ==
    [][/\ NoEarlierTombstone(remote, remote')
       /\ \A r \in Replicas : NoEarlierTombstone(data[r], data'[r])]_vars

\* the local half of C22 alone: a replica's local tree never takes an earlier
\* deletedAt
C22_LocalDeletedAtMonotone ==
    [][\A r \in Replicas : NoEarlierTombstone(data[r], data'[r])]_vars

\* C23: a store write that throws is contained.  After an edit whose store
\* write throws the component is still rendered, the edit is in the local
\* tree and, signed in, online and with no cycle in flight, a save timer for
\* it is pending; after a sync merge whose store write throws the component
\* is still rendered; and a guard that is set is released again.
C23_StoreFailureContained ==
    /\ [][\A r \in Replicas :
             /\ MutationStoreThrows(r)
                   => /\ mounted'[r]
                      /\ data'[r] # data[r]
                      /\ (user[r] /\ isOnline[r] /\ ~isSyncingRef[r])
                            => timer'[r] = [armed |-> TRUE, tree |-> data'[r]]
             /\ MergeStoreThrows(r) => mounted'[r]]_vars
    /\ \A r \in Replicas : isSyncingRef[r] ~> ~isSyncingRef[r]

\* an edit's store write has thrown while the replica was signed in and
\* online with no cycle in flight: the component is unmounted, the edit is
\* not in the store and no save timer is pending
C23_Witness ==
    /\ ~mounted["A"]
    /\ user["A"] /\ isOnline["A"] /\ ~isSyncingRef["A"]
    /\ cycles["A"] = {}
    /\ data["A"] # stored["A"]
    /\ ~timer["A"].armed
    /\ ~push["A"].active

\* C24: storage.load never throws; it returns the stored tree when the item
\* is the text of a tree, and the empty tree when there is no item or the
\* item is not JSON; storage.save(t) followed by storage.load() returns t.
C24_LoadAndRoundTrip ==
    /\ mPhase # "loadThrew"
    /\ mPhase = "loaded" =>
          /\ \A t \in {mLocal, SeedTree} : item = JSONstringify(t) => mOut = t
          /\ item \in {NoItem, EmptyText, BadText} => mOut = EmptyData
    /\ mPhase = "reloaded" => mOut = mLocal

\* a tree of two buckets, the first deleted with a live category holding a
\* bookmark, was saved and loaded again
C24_Witness ==
    /\ mPhase = "reloaded"
    /\ Len(mLocal.buckets) = 2
    /\ mLocal.buckets[1].deleted
    /\ BmIdsIn(mLocal, 1, 1) # {}
    /\ item = JSONstringify(mLocal)
    /\ mOut = mLocal

\* a request to one of the three data endpoints has just been answered
DataRequests == {"getData", "postData", "checkData"}

\* C25: GET /api/data, POST /api/data and GET /api/data/check are served
\* only for a token whose session exists and has not expired; a request with
\* the token of a session past its expiresAt is answered 401, returns no
\* user data and leaves the data file as it is.
C25_SessionValidated ==
    [][(response' # response /\ response'.req \in DataRequests) =>
          LET tok == response'.token
          IN  IF HasSession(tok) /\ ~IsExpired(tok)
              THEN response'.status = 200
              ELSE /\ response'.status = 401
                   /\ response'.data = "none"
                   /\ response'.lastModified = 0
                   /\ userFile' = userFile]_vars

\* a POST /api/data with the token of an expired session has been answered
\* 200 and has written the data file
C25_Witness ==
    /\ response.req = "postData"
    /\ response.status = 200
    /\ HasSession(response.token)
    /\ IsExpired(response.token)
    /\ userFile.lastModified = clock

\* a step in which the load of a cycle of r returns the document: the cycle
\* goes on from its load to loadAll, no call has failed and the render went
\* through
LoadSucceeds(r) ==
    /\ \E c \in cycles[r] :
          /\ c.pc = "load"
          /\ cycles'[r] = (cycles[r] \ {c}) \cup {[c EXCEPT !.pc = "shared"]}
    /\ eventsLeft' = eventsLeft
    /\ mounted'[r]

\* C26: when the load of a sync cycle succeeds (after a check that answered
\* another stamp than the last known one) the local tree becomes
\* mergeData(L, R), L being the local tree at that moment and R the loaded
\* tree, the store holds that merged tree, and the last known stamp becomes
\* the one the load returned.
C26_LoadMerges ==
    [][\A r \in Replicas :
          LoadSucceeds(r) =>
              /\ data'[r] = mergeData(data[r], remote)
              /\ stored'[r] = data'[r]
              /\ serverLastModified'[r] = RemoteStamp]_vars

\* a cycle has merged after its load: the local tree holds the bucket the
\* user added while the cycle was in flight and the bookmark another replica
\* had written, the store holds the same tree and the stamp is the remote's
C26_Witness ==
    /\ \E c \in cycles["A"] : c.pc = "shared"
    /\ unpushed["A"]
    /\ Len(data["A"].buckets) = 2
    /\ OtherId \in BmIdsIn(data["A"], 1, 1)
    /\ stored["A"] = data["A"]
    /\ serverLastModified["A"] = RemoteStamp

\* a step of a cycle of r that is in flight: one of its awaits returns, or its
\* guard is released
CycleMoves(r) == \E c \in cycles[r] : c \notin cycles'[r]

\* a step in which a cycle of r calls load()
LoadCalled(r) == \E c \in cycles'[r] \ cycles[r] : c.pc = "load"

\* C27: every step of a sync cycle other than a load that returned the
\* document (a failed check, a failed load, a check that answered the known
\* stamp, the end of the cycle) leaves the local tree, the store and the last
\* known stamp as they were; load is called only by a cycle whose check
\* answered, without an error, a stamp other than the last known one.
C27_NoMergeNoChange ==
    [][\A r \in Replicas :
          /\ (CycleMoves(r) /\ ~LoadSucceeds(r)) =>
                 /\ data'[r] = data[r]
                 /\ stored'[r] = stored[r]
                 /\ serverLastModified'[r] = serverLastModified[r]
          /\ LoadCalled(r) =>
                 /\ \E c \in cycles[r] : c.pc = "check" /\ c.lm # RemoteStamp
                 /\ serverLastModified[r] # RemoteStamp
                 /\ eventsLeft' = eventsLeft]_vars

\* a cycle whose check failed awaits loadAll: the remote is marked
\* unreachable, the remote document has changed and the local tree holds
\* nothing of it
C27_Witness ==
    /\ \E c \in cycles["A"] : c.pc = "shared" /\ c.lm # RemoteStamp
    /\ ~serverReachable["A"]
    /\ ~push["A"].active
    /\ serverLastModified["A"] # RemoteStamp
    /\ remote # data["A"]
    /\ data["A"] = stored["A"]
    /\ eventsLeft < MaxEvents

\* C28: after every edit made while signed in and online a push timer for the
\* new tree is pending, whatever timer was pending before and whether or not
\* a sync cycle is in flight.
C28_CancelAndReplace ==
    [][\A r \in Replicas :
          (Mutation(r) /\ user[r] /\ isOnline[r])
              => timer'[r] = [armed |-> TRUE, tree |-> data'[r]]]_vars

\* the second of two edits of a signed-in, online replica was made with a
\* sync cycle in flight: no timer is pending, no save was ever issued and
\* the store holds a tree the remote document does not
C28_Witness ==
    /\ user["A"] /\ isOnline["A"]
    /\ isSyncingRef["A"] /\ cycles["A"] # {}
    /\ now = 3
    /\ unpushed["A"]
    /\ ~timer["A"].armed
    /\ ~push["A"].active
    /\ remoteVer = 1
    /\ stored["A"] = data["A"]
    /\ remote # data["A"]

\* a step in which r issues serverData.save
SaveStarted(r) == push'[r].active /\ ~push[r].active

\* C29: a timer that fires while a sync cycle holds the guard, or while the
\* replica is offline, issues no save and is gone afterwards, nothing being
\* queued in its place; a save is started only with no cycle in flight, the
\* guard free and the replica online.
C29_SkippedNotQueued ==
    [][\A r \in Replicas :
          /\ (TimerFires(r) /\ (isSyncingRef[r] \/ ~isOnline[r]))
                => /\ ~SaveStarted(r)
                   /\ push'[r] = NoPush
                   /\ timer'[r] = Unarmed
          /\ SaveStarted(r)
                => /\ cycles[r] = {}
                   /\ ~isSyncingRef[r]
                   /\ isOnline[r]]_vars

\* the timer of an edit has fired while a cycle held the guard:
\* the cycle is still in flight, the tree the timer held got no save, no
\* save is in flight and no timer is pending
C29_Witness ==
    /\ cycles["A"] # {} /\ isSyncingRef["A"]
    /\ isOnline["A"]
    /\ dropped["A"]
    /\ unpushed["A"]
    /\ timer["A"] = Unarmed
    /\ push["A"] = NoPush
    /\ remote # data["A"]

\* a step in which the save call of r returns
SaveEnded(r) == push[r].active /\ ~push'[r].active

\* C30: a save that returns with the remote document not written (it
\* answered an error or threw) leaves the component rendered, the local tree,
\* the store and the last known stamp as they were and marks the remote
\* unreachable; the return of a save changes the last known stamp only when
\* the document was written, and then to the stamp of that write.
C30_PushFailureContained ==
    [][\A r \in Replicas :
          (mounted[r] /\ SaveEnded(r)) =>
              /\ mounted'[r]
              /\ data'[r] = data[r]
              /\ stored'[r] = stored[r]
              /\ IF remoteVer' = remoteVer
                 THEN /\ serverLastModified'[r] = serverLastModified[r]
                      /\ ~serverReachable'[r]
                 ELSE /\ remote' = push[r].tree
                      /\ serverLastModified'[r] = ClientStamp(remoteVer')]_vars

\* the save of an edit has failed: the replica is online and rendered, the
\* remote is marked unreachable, the store holds the edit, the remote
\* document was not written and nothing is pending
C30_Witness ==
    /\ mounted["A"] /\ isOnline["A"]
    /\ ~serverReachable["A"]
    /\ edited["A"] /\ ~unpushed["A"] /\ ~dropped["A"]
    /\ push["A"] = NoPush
    /\ timer["A"] = Unarmed
    /\ remoteVer = 1
    /\ eventsLeft = MaxEvents - 2
    /\ stored["A"] = data["A"]
    /\ remote # data["A"]
    /\ serverLastModified["A"] = ServerStamp(1)

\* C31: every save call a replica issues sends the tree its store holds at
\* that moment, written there before the call; a pending timer holds the
\* stored tree as well.
C31_PersistBeforePush ==
    [][\A r \in Replicas :
          /\ timer'[r].armed => timer'[r].tree = stored'[r]
          /\ SaveStarted(r) => push'[r].tree = stored[r]]_vars

\* the save of an edit is in flight and sends the tree the store holds
C31_Witness ==
    /\ push["A"].active
    /\ edited["A"]
    /\ push["A"].tree = stored["A"]
    /\ stored["A"] # EmptyData
    /\ remote # stored["A"]

\* C34: for well-formed trees a and b, mergeData(a, b) and mergeData(b, a)
\* hold the same buckets, the same categories in each bucket and the same
\* bookmarks in each category, each with the same deleted flag.
C34_SwapSameEntities ==
    (Merged /\ WellFormed(mLocal) /\ WellFormed(mRemote))
        => Entities(mOut) = Entities(mergeData(mRemote, mLocal))

\* two different trees have been merged: a category is a tombstone on one
\* side only, and each side holds an entity the other has not
C34_Witness ==
    /\ Merged
    /\ WellFormed(mLocal) /\ WellFormed(mRemote)
    /\ mOut # mergeData(mRemote, mLocal)
    /\ \E p \in BothCatPaths : LC(p[1], p[2]).deleted # RC(p[1], p[2]).deleted
    /\ PathsOf(mLocal) \ PathsOf(mRemote) # {}
    /\ PathsOf(mRemote) \ PathsOf(mLocal) # {}

\* C40: for well-formed trees a and b, merging b once more into
\* mergeData(a, b) gives mergeData(a, b) again, the same entities with the
\* same field values in the same order.
C40_RemergeNoOp ==
    (Merged /\ WellFormed(mLocal) /\ WellFormed(mRemote))
        => mergeData(mOut, mRemote) = mOut

\* two different trees have been merged into a third: a bookmark held by
\* both is a tombstone on one side only, and one side holds an entity the
\* other has not
C40_Witness ==
    /\ Merged
    /\ WellFormed(mLocal) /\ WellFormed(mRemote)
    /\ mOut # mLocal /\ mOut # mRemote
    /\ \E p \in BothBmPaths :
          LX(p[1], p[2], p[3]).deleted # RX(p[1], p[2], p[3]).deleted
    /\ PathsOf(mRemote) \ PathsOf(mLocal) # {}

\* e is not deleted, or its own tombstone is younger than the retention
OwnTombstoneKeeps(e) == ~e.deleted \/ mNow - e.deletedAt < Retention

GloballyUnique(tree) ==
    \A p, q \in BookmarksOf(tree) : p[3] = q[3] => p = q

\* C37: when every bookmark id occurs in at most one category of each input
\* tree of mergeData, every bookmark id occurs in at most one category of
\* its output, also when one input is the other after a bookmark was moved
\* to another category.
C37_IdsStayUnique ==
    (Merged /\ GloballyUnique(mLocal) /\ GloballyUnique(mRemote)) => GloballyUnique(mOut)

\* a moved bookmark has been merged with the tree it was moved in: the
\* output holds it in its new category and in its old one
C37_Witness ==
    /\ Merged
    /\ GloballyUnique(mLocal) /\ GloballyUnique(mRemote)
    /\ WellFormed(mLocal) /\ WellFormed(mRemote)
    /\ \E x \in ChildIds, target \in MoveTargets :
          /\ <<1, 1, x>> \in BookmarksOf(mRemote)
          /\ <<1, 1, x>> \notin BookmarksOf(mLocal)
          /\ <<target[1], target[2], x>> \in BookmarksOf(mLocal)
          /\ <<1, 1, x>> \in BookmarksOf(mOut)
          /\ <<target[1], target[2], x>> \in BookmarksOf(mOut)

\* C39: when the last known stamp of a replica is the one its own push
\* returned and nobody has written the remote document since, the next check
\* that answers takes the no-change path: no load is called.
C39_OwnPushIsNoChange ==
    [][\A r \in Replicas :
          \A c \in cycles[r] :
              (/\ c.pc = "check"
               /\ c.lm = ClientStamp(remoteVer)
               /\ serverLastModified[r] = c.lm
               /\ c \notin cycles'[r]
               /\ eventsLeft' = eventsLeft)
                  => ~LoadCalled(r)]_vars

\* the push of an edit has succeeded, nobody else has written, and the cycle
\* that followed is calling load: the remote document is the replica's own
\* tree and the replica holds the stamp its save returned
C39_Witness ==
    /\ \E c \in cycles["A"] : c.pc = "load" /\ c.lm = ClientStamp(remoteVer)
    /\ serverLastModified["A"] = ClientStamp(remoteVer)
    /\ remote = data["A"]
    /\ edited["A"]
    /\ push["A"] = NoPush

\* ---------------------------------------------------------------------------
\* Startup, sign-in and sign-out (App.tsx 286-341, 989-999, 1215-1220)
\* ---------------------------------------------------------------------------

\* 184-221 syncWithServer as called by an effect of the render in which
\* `user` has the value signedIn
SyncCallAs(r, lm, signedIn) ==
    IF signedIn /\ ~isSyncingRef[r]
    THEN /\ isSyncingRef' = [isSyncingRef EXCEPT ![r] = TRUE]
         /\ cycles' = [cycles EXCEPT ![r] = @ \cup {[kind |-> "sync", pc |-> "check", lm |-> lm]}]
         /\ skipped' = [skipped EXCEPT ![r] = FALSE]
    ELSE /\ skipped' = [skipped EXCEPT ![r] = TRUE]
         /\ UNCHANGED <<isSyncingRef, cycles>>

\* the effects of the first render, on the initial state (20: data is
\* { buckets: [] }; 35: isLoaded is false): the save effect returns at 345, the
\* focus effect at 442, and 989-992 sweeps the initial tree
Mount(r) ==
    /\ ~mounted[r]
    /\ isAuthLoading[r]
    /\ mounted' = [mounted EXCEPT ![r] = TRUE]
    /\ data' = [data EXCEPT ![r] = cleanupOldTombstones(@, now)]
    /\ UNCHANGED <<mvars, bvars, avars, dropped, edited, skipped, unpushed, stored, user, isOnline, hasFocus,
                   serverReachable, serverLastModified, isSyncingRef, syncInterval, cycles,
                   timer, push, svars>>

\* 994-996: the daily interval of the sweep fires
DailySweep(r) ==
    /\ mounted[r]
    /\ eventsLeft > 0
    /\ eventsLeft' = eventsLeft - 1
    /\ now' = now + 1
    /\ LET swept == cleanupOldTombstones(data[r], now')
       IN  /\ data' = [data EXCEPT ![r] = swept]
           /\ SaveEffect(r, swept, isOnline[r], isSyncingRef[r])
    /\ unpushed' = [unpushed EXCEPT ![r] = @ /\ ~timer'[r].armed]
    /\ UNCHANGED <<mvars, bvars, avars, dropped, mounted, edited, skipped, user, isOnline, hasFocus,
                   serverReachable, serverLastModified, isSyncingRef, syncInterval, cycles,
                   push, remote, remoteVer, nextId>>

\* 287-292: the listener is called with a user, at startup or after a sign-in
\* (an event of the budget); setUser, setIsAuthLoading(false),
\* and the callback waits for registerEmail.  The render runs the save effect
\* (344) and then the focus effect (441), whose handleFocus runs at once when
\* the window has the focus (469-471)
AuthSignedIn(r) ==
    /\ mounted[r]
    /\ ~user[r]
    /\ auth[r].pc = "idle"
    /\ eventsLeft >= (IF isAuthLoading[r] THEN 0 ELSE 1)
    /\ eventsLeft' = (IF isAuthLoading[r] THEN eventsLeft ELSE eventsLeft - 1)
    /\ user' = [user EXCEPT ![r] = TRUE]
    /\ isAuthLoading' = [isAuthLoading EXCEPT ![r] = FALSE]
    /\ auth' = [auth EXCEPT ![r].pc = "register"]
    /\ RunSaveEffect(r, data[r], isOnline[r], isSyncingRef[r], TRUE, isLoaded[r])
    /\ unpushed' = [unpushed EXCEPT ![r] = @ /\ ~timer'[r].armed]
    /\ syncInterval' = [syncInterval EXCEPT ![r] = FocusEffect(@, TRUE, hasFocus[r])]
    /\ IF hasFocus[r]
       THEN SyncCallAs(r, serverLastModified[r], TRUE)
       ELSE UNCHANGED <<isSyncingRef, cycles, skipped>>
    /\ UNCHANGED <<mvars, bvars, isLoaded, dropped, mounted, edited, data, isOnline, hasFocus,
                   serverReachable, serverLastModified, push,
                   remote, remoteVer, now, nextId>>

\* 293-296: registerEmail has returned; storage.load() is read into localData
\* and serverData.load is sent
AuthRegistered(r) ==
    /\ mounted[r]
    /\ auth[r].pc = "register"
    /\ auth' = [auth EXCEPT ![r] = [@ EXCEPT !.pc = "load", !.localData = stored[r],
                                             !.idAtLoad = nextId, !.idAtDone = nextId]]
    /\ UNCHANGED <<mvars, bvars, isLoaded, isAuthLoading, rvars, svars>>

\* 296: serverData.load returns the user's document (api.ts 104-117)
AuthLoadOk(r) ==
    /\ mounted[r]
    /\ auth[r].pc = "load"
    /\ auth' = [auth EXCEPT ![r] = [@ EXCEPT !.pc = "shared", !.ok = TRUE,
                                             !.serverResult = remote,
                                             !.lastModified = RemoteStamp]]
    /\ UNCHANGED <<mvars, bvars, isLoaded, isAuthLoading, rvars, svars>>

\* 296: serverData.load returns an error (api.ts 118-123)
AuthLoadError(r) ==
    /\ mounted[r]
    /\ auth[r].pc = "load"
    /\ eventsLeft > 0
    /\ eventsLeft' = eventsLeft - 1
    /\ auth' = [auth EXCEPT ![r] = [@ EXCEPT !.pc = "shared", !.ok = FALSE]]
    /\ UNCHANGED <<mvars, bvars, isLoaded, isAuthLoading, rvars, remote, remoteVer, now, nextId>>

\* 297-318: sharedBuckets.loadAll has returned; the trees are merged and set,
\* or the local tree is set, and isLoaded becomes true.  The render runs the
\* save effect and, when syncWithServer has a new identity (221), the focus
\* effect
AuthDone(r) ==
    /\ mounted[r]
    /\ auth[r].pc = "shared"
    /\ LET a == auth[r]
           merged == IF a.ok THEN mergeData(a.localData, a.serverResult) ELSE a.localData
           lm == IF a.ok THEN a.lastModified ELSE serverLastModified[r]
       IN  /\ data' = [data EXCEPT ![r] = merged]
           /\ serverLastModified' = [serverLastModified EXCEPT ![r] = lm]
           /\ RunSaveEffect(r, merged, isOnline[r], isSyncingRef[r], user[r], TRUE)
           /\ IF lm # serverLastModified[r]
              THEN /\ syncInterval' = [syncInterval EXCEPT
                                          ![r] = FocusEffect(@, user[r], hasFocus[r])]
                   /\ IF user[r] /\ hasFocus[r]
                      THEN SyncCallAs(r, lm, TRUE)
                      ELSE UNCHANGED <<isSyncingRef, cycles, skipped>>
              ELSE UNCHANGED <<syncInterval, isSyncingRef, cycles, skipped>>
    /\ isLoaded' = [isLoaded EXCEPT ![r] = TRUE]
    /\ auth' = [auth EXCEPT ![r] = [@ EXCEPT !.pc = "idle", !.idAtDone = nextId]]
    /\ unpushed' = [unpushed EXCEPT ![r] = @ /\ ~timer'[r].armed]
    /\ UNCHANGED <<mvars, bvars, isAuthLoading, dropped, mounted, edited, user, isOnline, hasFocus,
                   serverReachable, push, svars>>

\* 319-340: the listener is called without a user, at startup or after
\* 1215-1220 handleSignOut, which then clears serverLastModified; the stored
\* tree is set and isLoaded becomes true.  The render runs the save effect and
\* the cleanup of the focus effect
AuthSignedOut(r) ==
    /\ mounted[r]
    /\ auth[r].pc = "idle"
    /\ user[r] \/ isAuthLoading[r]
    /\ eventsLeft >= (IF isAuthLoading[r] THEN 0 ELSE 1)
    /\ eventsLeft' = (IF isAuthLoading[r] THEN eventsLeft ELSE eventsLeft - 1)
    /\ user' = [user EXCEPT ![r] = FALSE]
    /\ isAuthLoading' = [isAuthLoading EXCEPT ![r] = FALSE]
    /\ isLoaded' = [isLoaded EXCEPT ![r] = TRUE]
    /\ data' = [data EXCEPT ![r] = stored[r]]
    /\ serverLastModified' = [serverLastModified EXCEPT ![r] = 0]
    /\ RunSaveEffect(r, stored[r], isOnline[r], isSyncingRef[r], FALSE, TRUE)
    /\ unpushed' = [unpushed EXCEPT ![r] = @ /\ ~timer'[r].armed]
    /\ syncInterval' = [syncInterval EXCEPT ![r] = FocusEffect(@, FALSE, hasFocus[r])]
    /\ UNCHANGED <<mvars, bvars, auth, dropped, mounted, edited, skipped, isOnline, hasFocus,
                   serverReachable, isSyncingRef, cycles, push,
                   remote, remoteVer, now, nextId>>

AuthStep(r) ==
    \/ Mount(r) \/ DailySweep(r)
    \/ AuthSignedIn(r) \/ AuthRegistered(r) \/ AuthLoadOk(r) \/ AuthLoadError(r)
    \/ AuthDone(r) \/ AuthSignedOut(r)
    \/ AddBucket(r)
    \/ Focus(r) \/ Blur(r) \/ IntervalTick(r)
    \/ CheckSame(r) \/ CheckChanged(r) \/ LoadOk(r) \/ SharedDone(r)
    \/ TimerFires(r) \/ SaveOk(r)

\* the trees the replica store may hold when the page is opened: the seed
\* tree, and the seed tree with a tombstone older than the retention
StartTrees == {SeedTree, deleteBookmark(SeedTree, 1, 1, 1, 1)}

StartTime == Retention + 2

\* the page is opened on replica "A": nothing is rendered yet
InitAuth ==
    /\ mLocal = EmptyData
    /\ mRemote = EmptyData
    /\ mOut = EmptyData
    /\ mPhase = "none"
    /\ mNow = 0
    /\ item = NoItem
    /\ BackendAtStart
    /\ isLoaded = [r \in Replicas |-> r # "A"]
    /\ isAuthLoading = [r \in Replicas |-> r = "A"]
    /\ auth = [r \in Replicas |-> NoAuth]
    /\ data = [r \in Replicas |-> IF r = "A" THEN EmptyData ELSE SeedTree]
    /\ \E s \in StartTrees : stored = [r \in Replicas |-> IF r = "A" THEN s ELSE SeedTree]
    /\ user = [r \in Replicas |-> r # "A"]
    /\ isOnline = [r \in Replicas |-> TRUE]
    /\ hasFocus = [r \in Replicas |-> TRUE]
    /\ serverReachable = [r \in Replicas |-> TRUE]
    /\ serverLastModified = [r \in Replicas |-> IF r = "A" THEN 0 ELSE ServerStamp(1)]
    /\ isSyncingRef = [r \in Replicas |-> FALSE]
    /\ syncInterval = [r \in Replicas |-> IF r = "A" THEN NoInterval ELSE handleFocus(NoInterval)]
    /\ cycles = [r \in Replicas |-> {}]
    /\ timer = [r \in Replicas |-> Unarmed]
    /\ push = [r \in Replicas |-> NoPush]
    /\ skipped = [r \in Replicas |-> FALSE]
    /\ unpushed = [r \in Replicas |-> FALSE]
    /\ edited = [r \in Replicas |-> FALSE]
    /\ dropped = [r \in Replicas |-> FALSE]
    /\ mounted = [r \in Replicas |-> r # "A"]
    /\ remote = SeedTree
    /\ remoteVer = 1
    /\ now = StartTime
    /\ nextId = 2
    /\ eventsLeft = MaxEvents

NextAuth == AuthStep("A") \/ OtherWrites

SpecAuth == InitAuth /\ [][NextAuth]_vars

\* C32: whatever focus, blur, sign-in, sign-out and re-registration events have
\* happened, at most one 60 s sync interval of the replica is live, and none is
\* live while the window is blurred or while no user is signed in
C32_OneIntervalAtMost ==
    /\ Cardinality(syncInterval["A"].live) <= 1
    /\ (~hasFocus["A"] \/ ~user["A"]) => syncInterval["A"].live = {}

\* a user signed in at startup with the window focused, the sign-in ran its
\* load, and the only event since is the sign-out: the interval that the
\* sign-in started is gone
C32_Witness ==
    /\ ~user["A"]
    /\ hasFocus["A"]
    /\ auth["A"].idAtLoad > 0
    /\ eventsLeft = MaxEvents - 1
    /\ nextId = 2
    /\ remoteVer = 1
    /\ now = StartTime
    /\ syncInterval["A"].live = {}

\* the step made one call of syncWithServer on replica r: the call started a
\* check, or the guard of 185 turned it away
CalledOnce(r) ==
    \/ /\ \E c \in cycles'[r] \ cycles[r] :
              /\ cycles'[r] = cycles[r] \cup {c}
              /\ c.kind = "sync" /\ c.pc = "check"
       /\ ~isSyncingRef[r] /\ isSyncingRef'[r]
       /\ ~skipped'[r]
    \/ /\ cycles'[r] = cycles[r]
       /\ isSyncingRef[r]
       /\ skipped'[r]

\* C33: with a user signed in, every blur-to-focus step and every
\* offline-to-online step calls syncWithServer once, in the step itself; the
\* focus step leaves exactly one live 60 s interval, the one the ref holds, and
\* the online step has set isOnline when the call is made, before any check of
\* the cycle it starts
C33_ResumeChecksAtOnce ==
    [][ /\ (user["A"] /\ ~hasFocus["A"] /\ hasFocus'["A"])
            => /\ CalledOnce("A")
               /\ syncInterval'["A"].ref # 0
               /\ syncInterval'["A"].live = {syncInterval'["A"].ref}
        /\ (user["A"] /\ ~isOnline["A"] /\ isOnline'["A"])
            => /\ CalledOnce("A")
               /\ serverReachable'["A"]
      ]_vars

\* the only event so far was a blur or a loss of the connection; the window
\* has the focus and the connection again, and the call of the return has
\* started a check that has not ended
C33_Witness ==
    /\ user["A"]
    /\ hasFocus["A"]
    /\ isOnline["A"]
    /\ eventsLeft = MaxEvents - 1
    /\ now = 1
    /\ remoteVer = 1
    /\ ~skipped["A"]
    /\ cycles["A"] = {[kind |-> "sync", pc |-> "check", lm |-> serverLastModified["A"]]}
    /\ syncInterval["A"].live = {syncInterval["A"].ref}
    /\ data["A"] = SeedTree

\* the tombstones of the trees the store may hold at startup whose age at
\* startup exceeds the retention
OldStoredTombstones ==
    {t \in UNION {TombstonesOf(s) : s \in StartTrees} : StartTime - t.deletedAt > Retention}

\* C36: once startup has completed (isLoaded is true), the local tree holds no
\* tombstone of the stored tree that is older than the retention, without a
\* daily sweep having to run first
C36_StartupSweepsStoredTree ==
    isLoaded["A"] => TombstonesOf(data["A"]) \cap OldStoredTombstones = {}

\* startup has completed, signed out, on a store that held an old tombstone;
\* no other event has happened
C36_Witness ==
    /\ isLoaded["A"]
    /\ ~user["A"]
    /\ eventsLeft = MaxEvents
    /\ TombstonesOf(stored["A"]) \cap OldStoredTombstones # {}

\* the ids of the buckets of a tree that carry no tombstone
LiveBucketIds(tree) == {tree.buckets[i].id : i \in LiveBuckets(tree)}

\* C38: a bucket added between the sign-in handler's storage.load() and its
\* setData, while its remote load is in flight, is in the in-memory tree and in
\* the replica store when the sign-in merge has completed
C38_EditDuringSignInKept ==
    [][ (auth["A"].pc = "shared" /\ auth'["A"].pc = "idle")
            => \A b \in auth["A"].idAtLoad..(nextId - 1) :
                   /\ b \in LiveBucketIds(data'["A"])
                   /\ b \in LiveBucketIds(stored'["A"])
      ]_vars

\* a sign-in has completed its merge with the server's tree, and a bucket was
\* added while its load was in flight
C38_Witness ==
    /\ user["A"]
    /\ isLoaded["A"]
    /\ auth["A"].pc = "idle"
    /\ auth["A"].ok
    /\ auth["A"].idAtDone > auth["A"].idAtLoad
    /\ auth["A"].idAtLoad > 0
====
